---- MODULE Spec2Model ----
(***************************************************************************)
(* A model of gojs: the context-aware Runtime (main.go), the reflection    *)
(* bridge (Bind / ToBindObject, FieldName, MethodName) and the k6/data     *)
(* SharedArray constructor with the shared-object cache behind it.         *)
(***************************************************************************)
EXTENDS Integers, Sequences, FiniteSets, TLC

VARIABLES
    ctxCell,     \* Runtime.ctx of every Runtime
    evalStack,   \* per Runtime: the contexts handed to the evaluations in progress
    pc,          \* per Runtime: what its goroutine is doing
    globals,     \* per Runtime: the names Set / Bind installed
    regCell,     \* per Runtime: the cell as it was when Set installed f
    cur,         \* per Runtime: the SharedArray construction in progress
    entry,       \* SharedObjects: per name, the state of the shared entry
    heap,        \* the sharedArray values, by identity
    invoked,     \* per name: the factory invocations so far, and the failed ones
    held,        \* per Runtime and name: the wrapped array the script holds
    failurePolicy, \* SharedObjects: what a failed factory leaves behind
    ident,       \* an identifier of a bound type, as the words it is made of
    tag,         \* the js tag of the field that has the identifier
    mapped,      \* what FieldName / MethodName last made of it
    bindings,    \* per Runtime: the export sets Bind installed, by global name
    appCtx,      \* a context the embedding application is deriving
    cancelled,   \* per Runtime: the context of its evaluation has been cancelled
    made,        \* the Runtimes NewWith has returned, in order
    config,      \* the lib.Options a caller holds: the receiver and the argument
                 \* of Options.Apply, and whether TLS 1.3 has been enabled
    given,       \* the native value the application is about to hand to Set
    dialer,      \* a netext.Dialer, its Conns' traffic and the GetTrail call on it
    bound,       \* the method ToBindObject exported last, as it inspected it
    result,      \* the last script call of the exported method and its outcome
    event        \* what the last step showed its caller: the context a callback
                 \* received, the content read, the exception raised

rtVars    == <<ctxCell, evalStack, pc, globals, regCell>>
shareVars == <<cur, entry, heap, invoked, held, failurePolicy>>
bridgeVars == <<bound, result>>
nameVars == <<ident, tag, mapped>>
embedVars == <<bindings, appCtx, cancelled, made, config, given, dialer>>

(***************************************************************************)
(* Bounds of the model.                                                    *)
(***************************************************************************)
MaxDepth == 2        \* evaluations nested on one Runtime
MaxInvocations == 2  \* factory invocations recorded per shared name
MaxParams == 2       \* declared parameters of a method besides context and variadic
MaxArgs == 3         \* arguments of a script call
MaxWords == 3        \* words an identifier is made of
MaxFields == 2       \* fields of a bound struct
MaxLinks == 3        \* WithValue links of a context the application derives
MaxMade == 3         \* Runtimes the application constructs with NewWith

Runtimes == {"r1", "r2"}

(***************************************************************************)
(* context.Context: a chain of WithValue links; Value finds the innermost  *)
(* link with the key. A nil context is a value of its own.                 *)
(***************************************************************************)
ctxKeyRuntime == "js-runtime"
ctxKeyInitEnv == "init-env"
UserKeys == {"a", ctxKeyInitEnv}
NoValue == "<nil>"

NilCtx == [nil |-> TRUE, kv |-> <<>>]
Background == [nil |-> FALSE, kv |-> <<>>]

WithValue(ctx, key, val) == [nil |-> FALSE, kv |-> Append(ctx.kv, <<key, val>>)]

RECURSIVE LookupFrom(_, _, _)
LookupFrom(kv, i, key) ==
    IF i = 0 THEN NoValue
    ELSE IF kv[i][1] = key THEN kv[i][2]
    ELSE LookupFrom(kv, i - 1, key)

Value(ctx, key) == LookupFrom(ctx.kv, Len(ctx.kv), key)

WithRuntime(ctx, rt) == WithValue(ctx, ctxKeyRuntime, rt)

\* A GetRuntime that answers with the first runtime ever attached.
RECURSIVE FirstFrom(_, _, _)
FirstFrom(kv, i, key) ==
    IF i > Len(kv) THEN NoValue
    ELSE IF kv[i][1] = key THEN kv[i][2]
    ELSE FirstFrom(kv, i + 1, key)

GetRuntimeOutermost(ctx) == FirstFrom(ctx.kv, 1, ctxKeyRuntime)

GetRuntime(ctx) == Value(ctx, ctxKeyRuntime)

WithInitEnv(ctx, env) == WithValue(ctx, ctxKeyInitEnv, env)

GetInitEnv(ctx) == Value(ctx, ctxKeyInitEnv)

\* The contexts the embedding application evaluates under.
CtxEnvB == WithInitEnv(WithValue(Background, "a", "b"), "env")
CtxEnvC == WithValue(WithInitEnv(Background, "env"), "a", "c")
CtxOther == WithRuntime(WithValue(Background, "a", "c"), "r2")

Contexts == {CtxEnvB, CtxEnvC, CtxOther}

\* With and without an init environment, for the scripts that share arrays.
ShareContexts == {CtxEnvB, CtxOther}

(***************************************************************************)
(* The Runtime: RunString / RunScript / RunProgram, Set, Bind and the      *)
(* context-taking callbacks convertValue and ToBindObject wrap.            *)
(***************************************************************************)
NoEvent == [kind |-> "none"]

Top(stack) == stack[Len(stack)]

\* A cell that only the first evaluation writes.
CellSetOnce(old, ctx, rt) == IF old.nil THEN WithRuntime(ctx, rt) ELSE old

\* An entry point that keeps the Runtime the caller's context already carries.
CellKeepsAttached(old, ctx, rt) ==
    IF GetRuntime(ctx) = NoValue THEN WithRuntime(ctx, rt) ELSE ctx

\* r.ctx = WithRuntime(ctx, r), the first statement of the three entry points.
CellAfterRun(old, ctx, rt) == WithRuntime(ctx, rt)

\* One cell for all Runtimes instead of a field of each.
CallbackCtxShared(rt) == ctxCell["r1"]

\* What the closure of convertValue, and the wrapper of ToBindObject, hand to
\* the native function: the cell as it is when the script calls.
CallbackCtx(rt) == ctxCell[rt]

\* Runtime.Set("f", func(ctx, call)): convertValue installs the closure.
SetFn(rt) ==
    /\ pc[rt] = "idle"
    /\ "f" \notin globals[rt]
    /\ globals' = [globals EXCEPT ![rt] = @ \cup {"f"}]
    /\ regCell' = [regCell EXCEPT ![rt] = ctxCell[rt]]
    /\ event' = NoEvent
    /\ UNCHANGED <<ctxCell, evalStack, pc>>
    /\ UNCHANGED shareVars
    /\ UNCHANGED bridgeVars
    /\ UNCHANGED nameVars
    /\ UNCHANGED embedVars

\* Runtime.Bind("data", new(data)): the export set of the k6/data module.
BindData(rt) ==
    /\ pc[rt] = "idle"
    /\ "data" \notin globals[rt]
    /\ globals' = [globals EXCEPT ![rt] = @ \cup {"data"}]
    /\ event' = NoEvent
    /\ UNCHANGED <<ctxCell, evalStack, pc, regCell>>
    /\ UNCHANGED shareVars
    /\ UNCHANGED bridgeVars
    /\ UNCHANGED nameVars
    /\ UNCHANGED embedVars

\* A top-level RunString / RunScript / RunProgram starts on an idle Runtime.
RunTop(rt, ctx) ==
    /\ pc[rt] = "idle"
    /\ ctxCell' = [ctxCell EXCEPT ![rt] = CellAfterRun(@, ctx, rt)]
    /\ evalStack' = [evalStack EXCEPT ![rt] = <<ctx>>]
    /\ pc' = [pc EXCEPT ![rt] = "script"]
    /\ event' = NoEvent
    /\ UNCHANGED <<globals, regCell>>
    /\ UNCHANGED shareVars
    /\ UNCHANGED bridgeVars
    /\ UNCHANGED nameVars
    /\ UNCHANGED embedVars

\* A native callback calls RunString / RunScript / RunProgram again.
RunNested(rt, ctx) ==
    /\ pc[rt] = "script"
    /\ Len(evalStack[rt]) < MaxDepth
    /\ ctxCell' = [ctxCell EXCEPT ![rt] = CellAfterRun(@, ctx, rt)]
    /\ evalStack' = [evalStack EXCEPT ![rt] = Append(@, ctx)]
    /\ event' = NoEvent
    /\ UNCHANGED <<pc, globals, regCell>>
    /\ UNCHANGED shareVars
    /\ UNCHANGED bridgeVars
    /\ UNCHANGED nameVars
    /\ UNCHANGED embedVars

\* An entry point that, returning, puts back the context of the evaluation
\* around it, and clears the cell when there is none.
CellPutBack(old, stack, rt) ==
    IF Len(stack) > 1 THEN WithRuntime(stack[Len(stack) - 1], rt) ELSE NilCtx

\* The entry points return what the engine returns and assign nothing to
\* r.ctx: the cell after the return is the cell before it.
CellAfterReturn(old, stack, rt) == old

\* The engine returns from the innermost evaluation; the cell is left alone.
EndEval(rt) ==
    /\ pc[rt] = "script"
    /\ ctxCell' = [ctxCell EXCEPT ![rt] = CellAfterReturn(@, evalStack[rt], rt)]
    /\ evalStack' = [evalStack EXCEPT ![rt] = SubSeq(@, 1, Len(@) - 1)]
    /\ pc' = [pc EXCEPT ![rt] = IF Len(evalStack[rt]) = 1 THEN "idle" ELSE "script"]
    /\ event' = NoEvent
    /\ UNCHANGED <<globals, regCell>>
    /\ UNCHANGED shareVars
    /\ UNCHANGED bridgeVars
    /\ UNCHANGED nameVars
    /\ UNCHANGED embedVars

\* The script calls f(): the native function sees the context it is handed.
CallNative(rt) ==
    /\ pc[rt] = "script"
    /\ "f" \in globals[rt]
    /\ event' = [kind |-> "call", rt |-> rt, got |-> CallbackCtx(rt),
                 under |-> Top(evalStack[rt]), depth |-> Len(evalStack[rt])]
    /\ UNCHANGED rtVars
    /\ UNCHANGED shareVars
    /\ UNCHANGED bridgeVars
    /\ UNCHANGED nameVars
    /\ UNCHANGED embedVars

\* The application takes f from the Runtime (the embedded engine's Get) and
\* calls it while no evaluation is running: the closure hands the native
\* function the cell as it is.
CallFromHost(rt) ==
    /\ pc[rt] = "idle"
    /\ "f" \in globals[rt]
    /\ event' = [kind |-> "hostcall", rt |-> rt, got |-> CallbackCtx(rt)]
    /\ UNCHANGED rtVars
    /\ UNCHANGED shareVars
    /\ UNCHANGED bridgeVars
    /\ UNCHANGED nameVars
    /\ UNCHANGED embedVars

(***************************************************************************)
(* k6/data: XSharedArray, getShareArrayFromCall, and the shared-object     *)
(* cache (SharedObjects.GetOrCreateShare) and array wrapper behind them.   *)
(***************************************************************************)
sharedArrayNamePrefix == "k6/data/SharedArray."

ArrayNames == {"s", "t"}          \* the names scripts share arrays under
CallNames == ArrayNames \cup {""} \* the first argument of new SharedArray(...)

Key(name) == <<sharedArrayNamePrefix, name>>
Keys == {Key(n) : n \in ArrayNames}

\* A script value an array element can be: a plain object, possibly with a
\* function-valued property.
Elem(v, withFn) == [value |-> v, fn |-> withFn]

\* The script functions handed to the constructor, by what they do when
\* called. Every Runtime's script has closures of its own: the arrays they
\* return differ from Runtime to Runtime.
ArrayOf(rt) ==
    IF rt = "r1" THEN <<Elem(1, FALSE), Elem(2, TRUE)>> ELSE <<Elem(3, FALSE)>>

Factories(rt) ==
    { [out |-> "array", elems |-> ArrayOf(rt)],
      [out |-> "string", elems |-> <<>>],
      [out |-> "throw", elems |-> <<>>] }

\* JSON.stringify drops function-valued properties; JSON.parse builds a new
\* object from the text.
JSONStringify(e) == [json |-> e.value]
JSONParse(str) == Elem(str.json, FALSE)

\* getShareArrayFromCall: the outcome of one factory run, before any state
\* changes: the error Throw raises, or the sharedArray it returns.
getShareArrayFromCall(f) ==
    IF f.out = "throw" THEN [ok |-> FALSE, err |-> "factory threw", arr |-> <<>>]
    ELSE IF f.out # "array"
        THEN [ok |-> FALSE, err |-> "only arrays can be made into SharedArray", arr |-> <<>>]
    ELSE [ok |-> TRUE, err |-> "",
          arr |-> [i \in 1..Len(f.elems) |-> JSONStringify(f.elems[i])]]

NoCur == [name |-> "", f |-> [out |-> "throw", elems |-> <<>>], ctx |-> NilCtx]
NoRuns == [n |-> 0, failed |-> 0]
NoEntry == [state |-> "unstarted", owner |-> "", failed |-> FALSE, value |-> 0]

ExceptionEvent(rt, msg) == [kind |-> "exception", rt |-> rt, err |-> msg]
ArrayEvent(rt, name, id, waited) ==
    [kind |-> "array", rt |-> rt, name |-> name, id |-> id, waited |-> waited]

\* sharedArray.wrap: the script-facing view of a shared value; reading index i
\* parses element i afresh.
WrapRead(id) == [i \in 1..Len(heap[id]) |-> JSONParse(heap[id][i])]

\* A wrapper that lets an index assignment through to the shared slice.
WrapWriteThrough(id, strict) ==
    [threw |-> FALSE,
     heap |-> [heap EXCEPT ![id] = [i \in 1..Len(@) |-> [json |-> 0]]]]

\* sharedArray.wrap: every write from script is rejected, with an exception
\* in strict mode and silently otherwise; the shared slice is never written.
WrapWrite(id, strict) == [threw |-> strict, heap |-> heap]

\* An entry that does not make later callers wait for the factory in progress.
EntryPhaseNoLatch(e) == IF e.state = "inprogress" THEN "unstarted" ELSE e.state

\* An entry that does not keep what its factory produced.
EntryPhaseNoMemo(e) == IF e.state = "done" /\ ~e.failed THEN "unstarted" ELSE e.state

\* An entry that answers a caller while its factory is still running.
EntryPhaseNoWait(e) == IF e.state = "inprogress" THEN "done" ELSE e.state

\* GetOrCreateShare: what a caller finds when it takes the entry of a name.
EntryPhase(e) == e.state

\* GetOrCreateShare at the moment the caller arrives at the entry: it becomes
\* the one that runs the factory, waits for the one that does, or is answered.
Arrive(rt, c) ==
    LET e == entry[Key(c.name)]
        phase == EntryPhase(e)
    IN
    CASE phase = "unstarted" ->
            /\ invoked[Key(c.name)].n < MaxInvocations
            /\ entry' = [entry EXCEPT ![Key(c.name)] =
                            [state |-> "inprogress", owner |-> rt,
                             failed |-> FALSE, value |-> 0]]
            /\ invoked' = [invoked EXCEPT ![Key(c.name)].n = @ + 1]
            /\ pc' = [pc EXCEPT ![rt] = "factory"]
            /\ cur' = [cur EXCEPT ![rt] = c]
            /\ event' = [kind |-> "factory", rt |-> rt, name |-> c.name]
            /\ UNCHANGED held
      [] phase = "inprogress" ->
            /\ pc' = [pc EXCEPT ![rt] = "waiting"]
            /\ cur' = [cur EXCEPT ![rt] = c]
            /\ event' = [kind |-> "wait", rt |-> rt, name |-> c.name]
            /\ UNCHANGED <<entry, invoked, held>>
      [] phase = "done" /\ e.failed ->
            /\ pc' = [pc EXCEPT ![rt] = "script"]
            /\ cur' = [cur EXCEPT ![rt] = NoCur]
            /\ event' = ExceptionEvent(rt, "shared entry failed")
            /\ UNCHANGED <<entry, invoked, held>>
      [] phase = "done" /\ ~e.failed ->
            /\ pc' = [pc EXCEPT ![rt] = "script"]
            /\ cur' = [cur EXCEPT ![rt] = NoCur]
            /\ held' = [held EXCEPT ![rt][c.name] = e.value]
            /\ event' = ArrayEvent(rt, c.name, e.value, pc[rt] = "waiting")
            /\ UNCHANGED <<entry, invoked>>

\* Checks that look at the name before the init environment.
ArgumentErrorNameFirst(ctx, name) ==
    IF name = "" THEN "empty name provided to SharedArray's constructor"
    ELSE IF GetInitEnv(ctx) = NoValue THEN "missing init environment"
    ELSE ""

\* XSharedArray, the checks before it goes to the cache: the error it
\* returns, or "".
ArgumentError(ctx, name) ==
    IF GetInitEnv(ctx) = NoValue THEN "missing init environment"
    ELSE IF name = "" THEN "empty name provided to SharedArray's constructor"
    ELSE ""

\* new data.SharedArray(name, f) from script: the wrapper of ToBindObject hands
\* XSharedArray the current context; XSharedArray checks it and the name and
\* goes to the cache.
XSharedArray(rt, name, f) ==
    /\ pc[rt] = "script"
    /\ "data" \in globals[rt]
    /\ LET ctx == CallbackCtx(rt) IN
       IF ArgumentError(ctx, name) # ""
       THEN /\ event' = [kind |-> "exception", rt |-> rt,
                          err |-> ArgumentError(ctx, name), name |-> name]
            /\ UNCHANGED <<pc, cur, entry, invoked, held>>
       ELSE Arrive(rt, [name |-> name, f |-> f, ctx |-> ctx])
    /\ UNCHANGED <<ctxCell, evalStack, globals, regCell>>
    /\ UNCHANGED <<heap, failurePolicy>>
    /\ UNCHANGED bridgeVars
    /\ UNCHANGED nameVars
    /\ UNCHANGED embedVars

\* A cache in which the failure of one factory spoils every entry.
FailEntryAll(k, rt) ==
    [j \in Keys |-> IF failurePolicy = "retry" THEN NoEntry
                    ELSE [state |-> "done", owner |-> rt, failed |-> TRUE, value |-> 0]]

\* GetOrCreateShare when the factory of entry k has failed: the entry is
\* given up and the next caller tries again, or it keeps the failure.
FailEntry(k, rt) ==
    [entry EXCEPT ![k] =
        IF failurePolicy = "retry" THEN NoEntry
        ELSE [state |-> "done", owner |-> rt, failed |-> TRUE, value |-> 0]]

\* The factory of the first requester runs to its end: getShareArrayFromCall
\* calls the script function, evaluates the copy loop with a nested RunString
\* under the same context, and the cache stores what it returns.
FactoryFinish(rt) ==
    /\ pc[rt] = "factory"
    /\ LET c == cur[rt]
           k == Key(c.name)
           r == getShareArrayFromCall(c.f)
           owner == GetRuntime(c.ctx)
           id == Len(heap) + 1
       IN IF r.ok
          THEN /\ ctxCell' = [ctxCell EXCEPT ![owner] = CellAfterRun(@, c.ctx, owner)]
               /\ heap' = Append(heap, r.arr)
               /\ entry' = [entry EXCEPT ![k] =
                               [state |-> "done", owner |-> rt,
                                failed |-> FALSE, value |-> id]]
               /\ held' = [held EXCEPT ![rt][c.name] = id]
               /\ event' = ArrayEvent(rt, c.name, id, FALSE)
               /\ UNCHANGED invoked
          ELSE /\ entry' = FailEntry(k, rt)
               /\ invoked' = [invoked EXCEPT ![k].failed = @ + 1]
               /\ event' = ExceptionEvent(rt, r.err)
               /\ UNCHANGED <<ctxCell, heap, held>>
    /\ pc' = [pc EXCEPT ![rt] = "script"]
    /\ cur' = [cur EXCEPT ![rt] = NoCur]
    /\ UNCHANGED <<evalStack, globals, regCell>>
    /\ UNCHANGED failurePolicy
    /\ UNCHANGED bridgeVars
    /\ UNCHANGED nameVars
    /\ UNCHANGED embedVars

\* A caller that waited for another caller's factory goes on once that
\* factory has ended.
WaitDone(rt) ==
    /\ pc[rt] = "waiting"
    /\ entry[Key(cur[rt].name)].state # "inprogress"
    /\ Arrive(rt, cur[rt])
    /\ UNCHANGED <<ctxCell, evalStack, globals, regCell>>
    /\ UNCHANGED <<heap, failurePolicy>>
    /\ UNCHANGED bridgeVars
    /\ UNCHANGED nameVars
    /\ UNCHANGED embedVars

\* The script reads the whole array it holds under a name.
ReadArray(rt, name) ==
    /\ pc[rt] = "script"
    /\ held[rt][name] # 0
    /\ event' = [kind |-> "read", rt |-> rt, name |-> name, id |-> held[rt][name],
                 content |-> WrapRead(held[rt][name])]
    /\ UNCHANGED rtVars
    /\ UNCHANGED shareVars
    /\ UNCHANGED bridgeVars
    /\ UNCHANGED nameVars
    /\ UNCHANGED embedVars

\* The script assigns to an index or a property of the array it holds, or
\* adds a property to one of its elements.
WriteArray(rt, name, strict) ==
    /\ pc[rt] = "script"
    /\ held[rt][name] # 0
    /\ LET w == WrapWrite(held[rt][name], strict) IN
        /\ heap' = w.heap
        /\ event' = [kind |-> "write", rt |-> rt, name |-> name,
                     id |-> held[rt][name], strict |-> strict, threw |-> w.threw,
                     before |-> heap[held[rt][name]]]
    /\ UNCHANGED rtVars
    /\ UNCHANGED <<cur, entry, invoked, held, failurePolicy>>
    /\ UNCHANGED bridgeVars
    /\ UNCHANGED nameVars
    /\ UNCHANGED embedVars

(***************************************************************************)
(* The bridge: what ToBindObject makes of one method, and the wrapper it   *)
(* synthesizes for a method that takes a context or returns an error.      *)
(***************************************************************************)
ctxT == "ctx"
errorT == "error"
jsValT == "jsval"
fnCallT == "fncall"

\* The types of the parameters a script argument is exported to.
ParamTypes == {"int", "callable", jsValT, fnCallT}
ElemTypes == {"int", "callable"}
OutShapes == {<<>>, <<"val">>, <<"val", errorT>>, <<errorT>>}

\* Script values: undefined, a number, a function.
Undefined == [k |-> "undefined", v |-> 0]
ScriptVals == {Undefined, [k |-> "num", v |-> 7], [k |-> "fn", v |-> 1]}
IsUndefined(arg) == arg.k = "undefined"

SeqsUpTo(S, n) == UNION {[1..m -> S] : m \in 0..n}

\* The method signatures reflection can show: an optional leading context,
\* the fixed parameters, an optional variadic last parameter, the results.
Signatures ==
    { [ins |-> (IF c THEN <<ctxT>> ELSE <<>>) \o fixed
                  \o (IF var = "none" THEN <<>> ELSE <<var>>),
       variadic |-> var # "none",
       outs |-> outs] :
      c \in BOOLEAN, fixed \in SeqsUpTo(ParamTypes, MaxParams),
      var \in ElemTypes \cup {"none"}, outs \in OutShapes }

numIn(sig) == Len(sig.ins)
numOut(sig) == Len(sig.outs)
hasError(sig) == numOut(sig) > 1 /\ sig.outs[2] = errorT
wantsContext(sig) == numIn(sig) > 0 /\ sig.ins[1] = ctxT
\* A test that has every variadic method wrapped as well.
isWrappedOrVariadic(sig) == hasError(sig) \/ wantsContext(sig) \/ sig.variadic
isWrapped(sig) == hasError(sig) \/ wantsContext(sig)
reservedArgs(sig) == IF wantsContext(sig) THEN 1 ELSE 0

\* goja's ExportTo: a number or anything else to an int, a function to a
\* callable and nothing else, any value to a goja.Value.
ExportTo(arg, T) ==
    CASE T = "int" ->
            [ok |-> TRUE, v |-> [t |-> "int", v |-> IF arg.k = "num" THEN arg.v ELSE 0]]
      [] T = "callable" ->
            IF arg.k = "fn" THEN [ok |-> TRUE, v |-> [t |-> "callable", v |-> arg.v]]
            ELSE [ok |-> FALSE, v |-> [t |-> "callable", v |-> 0]]
      [] OTHER -> [ok |-> TRUE, v |-> [t |-> T, v |-> arg]]

\* reflect.Zero(T), and the zero reflect.Value of a slot never filled.
Zero(T) == [t |-> T, v |-> 0]
NilSlice == [t |-> "slice", isNil |-> TRUE, elems |-> <<>>]
Unset == [t |-> "unset"]

\* call.Argument(i), with i counted from 0 as in the source.
Argument(callArgs, i) == IF i < Len(callArgs) THEN callArgs[i + 1] ELSE Undefined

\* What the script gets from a call that did not return.
NoScriptValue == [k |-> "none", v |-> 0]

\* Throw: the error becomes a script exception and the native call ends there.
Throw(err) ==
    [kind |-> "exception", invoked |-> FALSE, args |-> <<>>,
     value |-> NoScriptValue, err |-> err]

\* The variadic branch with the injected context counted as a script argument.
VarArgsNoOffset(sig, callArgs, i) ==
    LET T == sig.ins[i + 1]
        varArgsLen == Len(callArgs) - i
    IN IF varArgsLen <= 0 THEN [ok |-> TRUE, v |-> NilSlice]
       ELSE LET conv == [j \in 0..(varArgsLen - 1) |->
                            ExportTo(callArgs[i + j - reservedArgs(sig) + 1], T)]
            IN IF \E j \in 0..(varArgsLen - 1) : ~conv[j].ok
               THEN [ok |-> FALSE, v |-> NilSlice]
               ELSE [ok |-> TRUE,
                     v |-> [t |-> "slice", isNil |-> FALSE,
                            elems |-> [j \in 1..varArgsLen |-> conv[j - 1].v]]]

\* The variadic branch: the remaining arguments, each exported to the element
\* type; the first one that cannot be exported ends the call.
VarArgs(sig, callArgs, i) ==
    LET T == sig.ins[i + 1]
        varArgsLen == Len(callArgs) - (i - reservedArgs(sig))
    IN IF varArgsLen <= 0 THEN [ok |-> TRUE, v |-> NilSlice]
       ELSE LET conv == [j \in 0..(varArgsLen - 1) |->
                            ExportTo(callArgs[i + j - reservedArgs(sig) + 1], T)]
            IN IF \E j \in 0..(varArgsLen - 1) : ~conv[j].ok
               THEN [ok |-> FALSE, v |-> NilSlice]
               ELSE [ok |-> TRUE,
                     v |-> [t |-> "slice", isNil |-> FALSE,
                            elems |-> [j \in 1..varArgsLen |-> conv[j - 1].v]]]

\* A copy loop that exports an undefined argument like any other.
RECURSIVE CopyArgsExportsUndefined(_, _, _, _)
CopyArgsExportsUndefined(sig, callArgs, i, args) ==
    IF i >= numIn(sig) THEN [ok |-> TRUE, args |-> args]
    ELSE IF i < reservedArgs(sig) THEN CopyArgsExportsUndefined(sig, callArgs, i + 1, args)
    ELSE LET T == sig.ins[i + 1] IN
        IF T = fnCallT
        THEN [ok |-> TRUE, args |-> [args EXCEPT ![i + 1] = [t |-> fnCallT, v |-> callArgs]]]
        ELSE IF sig.variadic /\ i = numIn(sig) - 1
        THEN LET va == VarArgs(sig, callArgs, i) IN
             [ok |-> va.ok, args |-> [args EXCEPT ![i + 1] = va.v]]
        ELSE LET c == ExportTo(Argument(callArgs, i - reservedArgs(sig)), T) IN
             IF ~c.ok THEN [ok |-> FALSE, args |-> args]
             ELSE CopyArgsExportsUndefined(sig, callArgs, i + 1,
                      [args EXCEPT ![i + 1] = c.v])

\* A copy loop that takes script argument i for declared parameter i, the
\* injected context or not.
RECURSIVE CopyArgsNoShift(_, _, _, _)
CopyArgsNoShift(sig, callArgs, i, args) ==
    IF i >= numIn(sig) THEN [ok |-> TRUE, args |-> args]
    ELSE IF i < reservedArgs(sig) THEN CopyArgsNoShift(sig, callArgs, i + 1, args)
    ELSE LET T == sig.ins[i + 1] IN
        IF T = fnCallT
        THEN [ok |-> TRUE, args |-> [args EXCEPT ![i + 1] = [t |-> fnCallT, v |-> callArgs]]]
        ELSE IF sig.variadic /\ i = numIn(sig) - 1
        THEN LET va == VarArgs(sig, callArgs, i) IN
             [ok |-> va.ok, args |-> [args EXCEPT ![i + 1] = va.v]]
        ELSE LET arg == Argument(callArgs, i) IN
             IF IsUndefined(arg)
             THEN CopyArgsNoShift(sig, callArgs, i + 1,
                      [args EXCEPT ![i + 1] =
                          IF T = jsValT THEN [t |-> jsValT, v |-> Undefined] ELSE Zero(T)])
             ELSE LET c == ExportTo(arg, T) IN
                  IF ~c.ok THEN [ok |-> FALSE, args |-> args]
                  ELSE CopyArgsNoShift(sig, callArgs, i + 1, [args EXCEPT ![i + 1] = c.v])

\* A copy loop that goes on to the next parameter after a call descriptor.
RECURSIVE CopyArgsPastDescriptor(_, _, _, _)
CopyArgsPastDescriptor(sig, callArgs, i, args) ==
    IF i >= numIn(sig) THEN [ok |-> TRUE, args |-> args]
    ELSE IF i < reservedArgs(sig) THEN CopyArgsPastDescriptor(sig, callArgs, i + 1, args)
    ELSE LET T == sig.ins[i + 1] IN
        IF T = fnCallT
        THEN CopyArgsPastDescriptor(sig, callArgs, i + 1,
                 [args EXCEPT ![i + 1] = [t |-> fnCallT, v |-> callArgs]])
        ELSE IF sig.variadic /\ i = numIn(sig) - 1
        THEN LET va == VarArgs(sig, callArgs, i) IN
             [ok |-> va.ok, args |-> [args EXCEPT ![i + 1] = va.v]]
        ELSE LET arg == Argument(callArgs, i - reservedArgs(sig)) IN
             IF IsUndefined(arg)
             THEN CopyArgsPastDescriptor(sig, callArgs, i + 1,
                      [args EXCEPT ![i + 1] =
                          IF T = jsValT THEN [t |-> jsValT, v |-> Undefined] ELSE Zero(T)])
             ELSE LET c == ExportTo(arg, T) IN
                  IF ~c.ok THEN [ok |-> FALSE, args |-> args]
                  ELSE CopyArgsPastDescriptor(sig, callArgs, i + 1,
                           [args EXCEPT ![i + 1] = c.v])

\* The loop "Copy over arguments", from declared parameter i (counted from 0)
\* on: the assembled vector, or ok = FALSE where Throw was reached.
RECURSIVE CopyArgs(_, _, _, _)
CopyArgs(sig, callArgs, i, args) ==
    IF i >= numIn(sig) THEN [ok |-> TRUE, args |-> args]
    ELSE IF i < reservedArgs(sig) THEN CopyArgs(sig, callArgs, i + 1, args)
    ELSE LET T == sig.ins[i + 1] IN
        IF T = fnCallT
        THEN [ok |-> TRUE, args |-> [args EXCEPT ![i + 1] = [t |-> fnCallT, v |-> callArgs]]]
        ELSE IF sig.variadic /\ i = numIn(sig) - 1
        THEN LET va == VarArgs(sig, callArgs, i) IN
             [ok |-> va.ok, args |-> [args EXCEPT ![i + 1] = va.v]]
        ELSE LET arg == Argument(callArgs, i - reservedArgs(sig)) IN
             IF IsUndefined(arg)
             THEN CopyArgs(sig, callArgs, i + 1,
                      [args EXCEPT ![i + 1] =
                          IF T = jsValT THEN [t |-> jsValT, v |-> Undefined] ELSE Zero(T)])
             ELSE LET c == ExportTo(arg, T) IN
                  IF ~c.ok THEN [ok |-> FALSE, args |-> args]
                  ELSE CopyArgs(sig, callArgs, i + 1, [args EXCEPT ![i + 1] = c.v])

\* The argument vector before the loop: the context in slot 0 when the method
\* wants it (reflect.ValueOf of a nil context is the zero Value).
InitialArgs(sig, cell) ==
    [i \in 1..numIn(sig) |->
        IF i = 1 /\ wantsContext(sig) /\ ~cell.nil THEN [t |-> ctxT, v |-> cell]
        ELSE Unset]

\* What the host method returns: a value, and an error when it has failed.
Returns(sig, fails) ==
    [i \in 1..numOut(sig) |->
        IF sig.outs[i] = errorT
        THEN (IF fails THEN [t |-> errorT, isNil |-> FALSE, v |-> "boom"]
              ELSE [t |-> errorT, isNil |-> TRUE, v |-> ""])
        ELSE [t |-> "val", isNil |-> FALSE, v |-> 42]]

\* r.Runtime.ToValue: the script value of a native one.
ToValue(native) == [k |-> "native", v |-> native]

\* The end of a wrapper that never looks at the error slot.
AfterCallIgnoresError(sig, args, ret) ==
    IF Len(ret) > 0
    THEN [kind |-> "returned", invoked |-> TRUE, args |-> args,
          value |-> ToValue(ret[1]), err |-> ""]
    ELSE [kind |-> "returned", invoked |-> TRUE, args |-> args,
          value |-> Undefined, err |-> ""]

\* The end of a wrapper that gives the script undefined whatever is returned.
AfterCallDropsResults(sig, args, ret) ==
    IF Len(ret) > 0 /\ hasError(sig) /\ ~ret[2].isNil
    THEN Throw(ret[2].v)
    ELSE [kind |-> "returned", invoked |-> TRUE, args |-> args,
          value |-> Undefined, err |-> ""]

\* The end of a wrapper that throws a non-nil error wherever it is returned.
AfterCallThrowsAnyError(sig, args, ret) ==
    IF \E i \in 1..Len(ret) : ret[i].t = errorT /\ ~ret[i].isNil
    THEN Throw((ret[CHOOSE i \in 1..Len(ret) : ret[i].t = errorT /\ ~ret[i].isNil]).v)
    ELSE IF Len(ret) > 0
    THEN [kind |-> "returned", invoked |-> TRUE, args |-> args,
          value |-> ToValue(ret[1]), err |-> ""]
    ELSE [kind |-> "returned", invoked |-> TRUE, args |-> args,
          value |-> Undefined, err |-> ""]

\* The end of the wrapper: the results of the call become the script result.
AfterCall(sig, args, ret) ==
    IF Len(ret) > 0
    THEN IF hasError(sig) /\ ~ret[2].isNil
         THEN Throw(ret[2].v)
         ELSE [kind |-> "returned", invoked |-> TRUE, args |-> args,
               value |-> ToValue(ret[1]), err |-> ""]
    ELSE [kind |-> "returned", invoked |-> TRUE, args |-> args,
          value |-> Undefined, err |-> ""]

\* A wrapper that drops the error of ExportTo and calls the method anyway.
WrapperIgnoresExportError(sig, callArgs, cell, fails) ==
    LET a == CopyArgs(sig, callArgs, 0, InitialArgs(sig, cell)) IN
    IF \E i \in 1..numIn(sig) : a.args[i] = Unset
    THEN [kind |-> "gopanic", invoked |-> FALSE, args |-> <<>>,
          value |-> NoScriptValue, err |-> "reflect: Call using zero Value argument"]
    ELSE LET out == AfterCall(sig, a.args, Returns(sig, fails)) IN
         [out EXCEPT !.invoked = TRUE, !.args = a.args]

\* The wrapper ToBindObject synthesizes, called by the engine with callArgs
\* while the cell holds `cell`; `fails` says how the host method answers.
Wrapper(sig, callArgs, cell, fails) ==
    LET a == CopyArgs(sig, callArgs, 0, InitialArgs(sig, cell)) IN
    IF ~a.ok THEN Throw("could not convert")
    ELSE IF \E i \in 1..numIn(sig) : a.args[i] = Unset
    THEN [kind |-> "gopanic", invoked |-> FALSE, args |-> <<>>,
          value |-> NoScriptValue, err |-> "reflect: Call using zero Value argument"]
    ELSE LET out == AfterCall(sig, a.args, Returns(sig, fails)) IN
         [out EXCEPT !.invoked = TRUE, !.args = a.args]

NoMethod == [ins |-> <<>>, variadic |-> FALSE, outs |-> <<>>]
NoResult == [kind |-> "none"]

\* ToBindObject reaches a method of the bound object and inspects it.
BindMethod ==
    /\ bound = NoMethod
    /\ \E sig \in Signatures : bound' = sig
    /\ result' = NoResult
    /\ event' = NoEvent
    /\ UNCHANGED rtVars
    /\ UNCHANGED shareVars
    /\ UNCHANGED nameVars
    /\ UNCHANGED embedVars

\* A script calls the exported method of Runtime rt, which was wrapped.
CallWrapped(rt) ==
    /\ pc[rt] = "script"
    /\ result = NoResult
    /\ isWrapped(bound)
    /\ \E callArgs \in SeqsUpTo(ScriptVals, MaxArgs), fails \in BOOLEAN :
          /\ fails => errorT \in {bound.outs[i] : i \in 1..numOut(bound)}
          /\ result' = [callArgs |-> callArgs, fails |-> fails,
                        out |-> Wrapper(bound, callArgs, CallbackCtx(rt), fails)]
    /\ event' = NoEvent
    /\ UNCHANGED bound
    /\ UNCHANGED rtVars
    /\ UNCHANGED shareVars
    /\ UNCHANGED nameVars
    /\ UNCHANGED embedVars

\* The script has taken the outcome of the call and goes on.
ScriptGoesOn ==
    /\ result # NoResult
    /\ result' = NoResult
    /\ event' = NoEvent
    /\ UNCHANGED bound
    /\ UNCHANGED rtVars
    /\ UNCHANGED shareVars
    /\ UNCHANGED nameVars
    /\ UNCHANGED embedVars

(***************************************************************************)
(* The name mapper: FieldName and MethodName over identifiers spelled as   *)
(* sequences of character codes.                                           *)
(***************************************************************************)
ConstructorMarker == 88   \* 'X'

IsUpper(c) == c \in 65..90
ToLowerCh(c) == IF IsUpper(c) THEN c + 32 ELSE c
ToLower(str) == [i \in 1..Len(str) |-> ToLowerCh(str[i])]

WordJSON == <<74, 83, 79, 78>>
WordHTML == <<72, 84, 77, 76>>
WordURL == <<85, 82, 76>>
WordOCSP == <<79, 67, 83, 80>>
WordID == <<73, 68>>
WordGet == <<71, 101, 116>>
WordName == <<110, 97, 109, 101>>
TagHide == <<45>>           \* "-"
TagCustom == <<110, 109>>   \* "nm"

\* The words identifiers are put together from, and the js tags of fields.
Words == {<<ConstructorMarker>>, WordJSON, WordHTML, WordURL, WordOCSP, WordID,
          WordGet, WordName}
Tags == {<<>>, TagHide, TagCustom}

RECURSIVE Spell(_)
Spell(words) == IF words = <<>> THEN <<>> ELSE Head(words) \o Spell(Tail(words))

fieldNameExceptions == {WordOCSP}
methodNameExceptions == {WordJSON, WordHTML, WordURL, WordOCSP}

\* snaker: the initialisms CamelToSnake keeps together, and the longest one a
\* string starts with.
commonInitialisms == {WordJSON, WordHTML, WordURL, WordID}

startsWithInitialism(str) ==
    LET cands == {i \in 1..5 : Len(str) >= i /\ SubSeq(str, 1, i) \in commonInitialisms}
    IN IF cands = {} THEN <<>>
       ELSE SubSeq(str, 1, CHOOSE i \in cands : \A j \in cands : j <= i)

\* snaker.CamelToSnake, the loop that cuts the words; i and lastPos count
\* from 0 as in Go.
RECURSIVE SplitWords(_, _, _, _)
SplitWords(str, i, lastPos, words) ==
    IF i >= Len(str)
    THEN IF lastPos < Len(str) THEN Append(words, SubSeq(str, lastPos + 1, Len(str)))
         ELSE words
    ELSE IF i > 0 /\ IsUpper(str[i + 1])
    THEN LET ini == startsWithInitialism(SubSeq(str, lastPos + 1, Len(str))) IN
         IF ini # <<>>
         THEN SplitWords(str, i + Len(ini), i + Len(ini) - 1, Append(words, ini))
         ELSE SplitWords(str, i + 1, i, Append(words, SubSeq(str, lastPos + 1, i)))
    ELSE SplitWords(str, i + 1, lastPos, words)

RECURSIVE JoinLower(_, _)
JoinLower(words, k) ==
    IF k > Len(words) THEN <<>>
    ELSE (IF k > 1 THEN <<95>> ELSE <<>>) \o ToLower(words[k]) \o JoinLower(words, k + 1)

CamelToSnake(str) == JoinLower(SplitWords(str, 0, 0, <<>>), 1)

\* reflect.StructField of a field with this name and js tag: PkgPath is
\* non-empty exactly for an unexported field.
StructField(name, jsTag) ==
    [Name |-> name, PkgPath |-> IF IsUpper(name[1]) THEN "" ELSE "gojs", Tag |-> jsTag]

\* FieldName with the exception table consulted before the tag.
FieldNameExceptionFirst(f) ==
    IF f.PkgPath # "" THEN <<>>
    ELSE IF f.Name \in fieldNameExceptions THEN ToLower(f.Name)
    ELSE IF f.Tag # <<>> THEN (IF f.Tag = TagHide THEN <<>> ELSE f.Tag)
    ELSE CamelToSnake(f.Name)

FieldName(f) ==
    IF f.PkgPath # "" THEN <<>>
    ELSE IF f.Tag # <<>> THEN (IF f.Tag = TagHide THEN <<>> ELSE f.Tag)
    ELSE IF f.Name \in fieldNameExceptions THEN ToLower(f.Name)
    ELSE CamelToSnake(f.Name)

\* MethodName with the whole name lowercased by the default rule.
MethodNameLowersAll(name) ==
    IF name[1] = ConstructorMarker THEN Tail(name)
    ELSE IF name \in methodNameExceptions THEN ToLower(name)
    ELSE ToLower(name)

MethodName(name) ==
    IF name[1] = ConstructorMarker THEN Tail(name)
    ELSE IF name \in methodNameExceptions THEN ToLower(name)
    ELSE ToLower(SubSeq(name, 1, 1)) \o SubSeq(name, 2, Len(name))

NoName == [kind |-> "none"]

\* Reflection comes to a member whose identifier has one more word.
AppendWord ==
    /\ mapped = NoName
    /\ Len(ident) < MaxWords
    /\ \E w \in Words : ident' = Append(ident, w)
    /\ UNCHANGED <<tag, mapped>>
    /\ event' = NoEvent
    /\ UNCHANGED rtVars
    /\ UNCHANGED shareVars
    /\ UNCHANGED bridgeVars
    /\ UNCHANGED embedVars

\* The member is a field with a js tag.
SetTag ==
    /\ mapped = NoName
    /\ tag = <<>>
    /\ \E t \in Tags \ {<<>>} : tag' = t
    /\ UNCHANGED <<ident, mapped>>
    /\ event' = NoEvent
    /\ UNCHANGED rtVars
    /\ UNCHANGED shareVars
    /\ UNCHANGED bridgeVars
    /\ UNCHANGED embedVars

\* goja asks the mapper for the name of a method: reflection lists exported
\* methods only, so the identifier starts with a capital.
MapMethod ==
    /\ mapped = NoName
    /\ ident # <<>>
    /\ tag = <<>>
    /\ IsUpper(Spell(ident)[1])
    /\ mapped' = [kind |-> "method", name |-> Spell(ident),
                  out |-> MethodName(Spell(ident))]
    /\ UNCHANGED <<ident, tag>>
    /\ event' = NoEvent
    /\ UNCHANGED rtVars
    /\ UNCHANGED shareVars
    /\ UNCHANGED bridgeVars
    /\ UNCHANGED embedVars

\* goja, or ToBindObject, asks for the name of a field.
MapField ==
    /\ mapped = NoName
    /\ ident # <<>>
    /\ mapped' = [kind |-> "field", field |-> StructField(Spell(ident), tag),
                  out |-> FieldName(StructField(Spell(ident), tag))]
    /\ UNCHANGED <<ident, tag>>
    /\ event' = NoEvent
    /\ UNCHANGED rtVars
    /\ UNCHANGED shareVars
    /\ UNCHANGED bridgeVars
    /\ UNCHANGED embedVars

\* Reflection goes on to the next member.
NextMember ==
    /\ mapped # NoName
    /\ ident' = <<>>
    /\ tag' = <<>>
    /\ mapped' = NoName
    /\ event' = NoEvent
    /\ UNCHANGED rtVars
    /\ UNCHANGED shareVars
    /\ UNCHANGED bridgeVars
    /\ UNCHANGED embedVars

(***************************************************************************)
(* Bind / ToBindObject over whole host objects: the export set with the    *)
(* methods and the fields of the object.                                   *)
(***************************************************************************)

\* The global names the embedding application binds objects under.
BindNames == {"n1", "n2"}

\* The fields bound structs are declared with: a name and a js tag.
WordURLID == WordURL \o WordID
FieldChoices ==
    {StructField(WordOCSP, t) : t \in Tags}
        \cup {StructField(WordName, <<>>)}
        \cup {StructField(WordURLID, t) : t \in {<<>>, TagCustom}}

\* reflect.Method of a method and its type.
Method(name, ins, outs) ==
    [Name |-> name, sig |-> [ins |-> ins, variadic |-> FALSE, outs |-> outs]]

\* Host objects: the k6/data module, a pointer to a struct without fields and
\* with the constructor XSharedArray; and structs, bound by value or by
\* pointer, with a method Get and up to MaxFields fields of different names.
HostData ==
    [ptr |-> TRUE,
     methods |-> <<Method(<<ConstructorMarker>> \o WordName,
                          <<ctxT, "string", "callable">>, <<"val", errorT>>)>>,
     fields |-> <<>>]

HostObjects ==
    {HostData} \cup
    { [ptr |-> p, methods |-> <<Method(WordGet, <<>>, <<"val">>)>>, fields |-> fs] :
        p \in BOOLEAN,
        fs \in {q \in SeqsUpTo(FieldChoices, MaxFields) :
                   \A i, j \in 1..Len(q) : i # j => q[i].Name # q[j].Name} }

\* exports[name] = value
Put(exports, name, value) ==
    [k \in DOMAIN exports \cup {name} |-> IF k = name THEN value ELSE exports[k]]

\* What ToBindObject exports for a method: the method itself, or the wrapper
\* around it, and for a constructor the script function around that.
MethodExport(m) ==
    [kind |-> "method", of |-> m.Name, wrapped |-> isWrapped(m.sig),
     constructor |-> m.Name[1] = ConstructorMarker]

\* val.Field(i).Interface()
FieldExport(f) == [kind |-> "field", of |-> f.Name]

\* The loop over the methods, from method i on.
RECURSIVE ExportMethods(_, _, _)
ExportMethods(methods, i, exports) ==
    IF i > Len(methods) THEN exports
    ELSE ExportMethods(methods, i + 1,
             Put(exports, MethodName(methods[i].Name), MethodExport(methods[i])))

\* The names of the methods of bound types: a plain one and a constructor.
MethodNames == {WordGet, <<ConstructorMarker>> \o WordName}

\* One turn of the loop over the methods: ToBindObject inspects a method and
\* puts what it exports for it in the export set.
ExportMethod(name, sig) ==
    /\ event = NoEvent
    /\ event' = [kind |-> "export", m |-> [Name |-> name, sig |-> sig],
                 name |-> MethodName(name),
                 value |-> MethodExport([Name |-> name, sig |-> sig])]
    /\ UNCHANGED rtVars
    /\ UNCHANGED shareVars
    /\ UNCHANGED bridgeVars
    /\ UNCHANGED nameVars
    /\ UNCHANGED embedVars

\* The loop goes on to the next method.
NextMethod ==
    /\ event.kind = "export"
    /\ event' = NoEvent
    /\ UNCHANGED rtVars
    /\ UNCHANGED shareVars
    /\ UNCHANGED bridgeVars
    /\ UNCHANGED nameVars
    /\ UNCHANGED embedVars

\* A loop over the fields that exports every field, under whatever name.
RECURSIVE ExportFieldsAll(_, _, _)
ExportFieldsAll(fields, i, exports) ==
    IF i > Len(fields) THEN exports
    ELSE ExportFieldsAll(fields, i + 1,
             Put(exports, FieldName(fields[i]), FieldExport(fields[i])))

\* The loop over the fields, from field i on: a field is exported unless its
\* name is "".
RECURSIVE ExportFields(_, _, _)
ExportFields(fields, i, exports) ==
    IF i > Len(fields) THEN exports
    ELSE LET name == FieldName(fields[i]) IN
         ExportFields(fields, i + 1,
             IF name # <<>> THEN Put(exports, name, FieldExport(fields[i]))
             ELSE exports)

\* ToBindObject: the methods first, then the fields of the struct, which a
\* pointer is indirected to.
ToBindObject(v) == ExportFields(v.fields, 1, ExportMethods(v.methods, 1, <<>>))

\* A Bind that starts the globals of the Runtime afresh.
BindAfresh(globalObject, name, v) == Put(<<>>, name, ToBindObject(v))

\* r.Runtime.Set(name, exports), on the global object of the engine.
BindSet(globalObject, name, v) == Put(globalObject, name, ToBindObject(v))

\* Runtime.Bind(name, v), called by the embedding application.
Bind(rt, name, v) ==
    /\ bindings' = [bindings EXCEPT ![rt] = BindSet(@, name, v)]
    /\ UNCHANGED <<appCtx, cancelled, made, config, given, dialer>>
    /\ globals' = [globals EXCEPT ![rt] = @ \cup {name}]
    /\ event' = [kind |-> "bind", rt |-> rt, name |-> name, v |-> v]
    /\ UNCHANGED <<ctxCell, evalStack, pc, regCell>>
    /\ UNCHANGED shareVars
    /\ UNCHANGED bridgeVars
    /\ UNCHANGED nameVars

(***************************************************************************)
(* The embedding application deriving contexts: context.WithValue with its *)
(* own keys, WithRuntime, GetRuntime.                                      *)
(***************************************************************************)
UserVals == {"b", "c"}

\* ctx = context.WithValue(ctx, key, val)
DeriveValue(key, val) ==
    /\ Len(appCtx.kv) < MaxLinks
    /\ appCtx' = WithValue(appCtx, key, val)
    /\ event' = NoEvent
    /\ UNCHANGED <<bindings, cancelled, made, config, given, dialer>>
    /\ UNCHANGED rtVars
    /\ UNCHANGED shareVars
    /\ UNCHANGED bridgeVars
    /\ UNCHANGED nameVars

\* ctx = WithRuntime(ctx, rt)
AttachRuntime(rt) ==
    /\ Len(appCtx.kv) < MaxLinks
    /\ appCtx' = WithRuntime(appCtx, rt)
    /\ event' = [kind |-> "attach", rt |-> rt, before |-> appCtx]
    /\ UNCHANGED <<bindings, cancelled, made, config, given, dialer>>
    /\ UNCHANGED rtVars
    /\ UNCHANGED shareVars
    /\ UNCHANGED bridgeVars
    /\ UNCHANGED nameVars

\* GetRuntime(ctx)
RetrieveRuntime ==
    /\ event.kind # "retrieve"
    /\ event' = [kind |-> "retrieve", ctx |-> appCtx, got |-> GetRuntime(appCtx)]
    /\ UNCHANGED embedVars
    /\ UNCHANGED rtVars
    /\ UNCHANGED shareVars
    /\ UNCHANGED bridgeVars
    /\ UNCHANGED nameVars

(***************************************************************************)
(* The embedding application cancelling the context of an evaluation.      *)
(***************************************************************************)

\* cancel() of the context a Runtime evaluates under, while its script waits
\* in XSharedArray for the factory of another caller. GetOrCreateShare is
\* called with the name and the factory closure only: the waiting call has no
\* context to watch, and the cancellation changes nothing it reads.
CancelContext(rt) ==
    /\ pc[rt] = "waiting"
    /\ ~cancelled[rt]
    /\ cancelled' = [cancelled EXCEPT ![rt] = TRUE]
    /\ event' = [kind |-> "cancel", rt |-> rt]
    /\ UNCHANGED <<bindings, appCtx, made, config, given, dialer>>
    /\ UNCHANGED rtVars
    /\ UNCHANGED shareVars
    /\ UNCHANGED bridgeVars
    /\ UNCHANGED nameVars

(***************************************************************************)
(* Construction: NewWith, RuntimeOptions, ValidateCompatibilityMode.       *)
(***************************************************************************)
CompatibilityModeExtended == "extended"
CompatibilityModeBase == "base"

\* compiler.CompatibilityModeValues()
CompatibilityModeValues == <<CompatibilityModeExtended, CompatibilityModeBase>>

NoError == [msg |-> ""]
NoMode == ""

\* compiler.CompatibilityModeString: the mode with that name, or an error.
CompatibilityModeString(val) ==
    IF \E i \in 1..Len(CompatibilityModeValues) : CompatibilityModeValues[i] = val
    THEN [cm |-> val, err |-> NoError]
    ELSE [cm |-> NoMode, err |-> [msg |-> "does not belong to CompatibilityMode values"]]

\* A validation that falls back to the base mode for any unknown name.
ValidateLenient(val) ==
    IF CompatibilityModeString(val).err = NoError
    THEN [cm |-> val, err |-> NoError]
    ELSE [cm |-> CompatibilityModeBase, err |-> NoError]

ValidateCompatibilityMode(val) ==
    IF val = "" THEN [cm |-> CompatibilityModeBase, err |-> NoError]
    ELSE LET r == CompatibilityModeString(val) IN
         IF r.err # NoError
         THEN [cm |-> r.cm,
               err |-> [msg |-> "invalid compatibility mode", invalid |-> val,
                        use |-> CompatibilityModeValues]]
         ELSE r

\* The options the application constructs a Runtime with; nil stands for
\* NewWith(nil).
ModeNames == {"", "base", "extended", "es6"}
Envs == {"nil", "A=1"}
RuntimeOptions == {[CompatibilityMode |-> m, Env |-> e] : m \in ModeNames, e \in Envs}
NilOptions == [nil |-> TRUE]

NoRuntime == [nil |-> TRUE]

\* NewWith: the Runtime and the error it returns. coreFails says whether
\* running core.js in the new engine ends in an error.
NewWith(opts, coreFails) ==
    LET o == IF opts = NilOptions THEN [CompatibilityMode |-> "", Env |-> "nil"] ELSE opts
        v == ValidateCompatibilityMode(o.CompatibilityMode)
    IN IF v.err # NoError THEN [rt |-> NoRuntime, err |-> v.err]
       ELSE IF v.cm = CompatibilityModeExtended /\ coreFails
       THEN [rt |-> NoRuntime, err |-> [msg |-> "core.js"]]
       ELSE [rt |-> [nil |-> FALSE, CompatibilityMode |-> v.cm, ctx |-> NilCtx,
                     globals |-> [ENV |-> o.Env]],
             err |-> NoError]

\* The application constructs a Runtime.
Construct(opts, coreFails) ==
    /\ Len(made) < MaxMade
    /\ LET r == NewWith(opts, coreFails) IN
        /\ made' = IF r.rt = NoRuntime THEN made ELSE Append(made, r.rt)
        /\ event' = [kind |-> "new", opts |-> opts, rt |-> r.rt, err |-> r.err,
                     madeBefore |-> Len(made)]
    /\ UNCHANGED <<bindings, appCtx, cancelled, config, given, dialer>>
    /\ UNCHANGED rtVars
    /\ UNCHANGED shareVars
    /\ UNCHANGED bridgeVars
    /\ UNCHANGED nameVars

(***************************************************************************)
(* lib.Options and Options.Apply (src/lib/state.go).  A field of a null    *)
(* type is a value with a Valid flag; a pointer, a slice or a map is nil   *)
(* or refers to its content.                                               *)
(***************************************************************************)
MaxOverrides == 1

NullFields ==
    {"RPS", "MaxRedirects", "UserAgent", "Batch", "BatchPerHost", "HTTPDebug",
     "InsecureSkipTLSVerify", "Throw", "BlockedHostnames", "NoConnectionReuse",
     "SummaryTimeUnit", "MetricSamplesBufferSize", "NoCookiesReset",
     "DiscardResponseBodies", "ConsoleOutput", "LocalIPs"}
DNSFields == {"TTL", "Select", "Policy"}
PointerFields == {"TLSCipherSuites", "TLSVersion", "SystemTags", "RunTags"}
SliceFields == {"TLSAuth", "BlacklistIPs", "SummaryTrendStats"}
MapFields == {"Thresholds", "Hosts", "External"}
OptionFields ==
    NullFields \cup PointerFields \cup SliceFields \cup MapFields \cup {"DNS"}

Null(valid, val) == [Valid |-> valid, Val |-> val]
NullZero == Null(FALSE, "")
Nil == [isNil |-> TRUE]
Ref(content) == [isNil |-> FALSE, val |-> content]

TLSVersion13 == "tls1.3"
AnyTLSVersion == "any"

\* (*TLSVersions).IsTLS13
IsTLS13(v) == v.val.Min = TLSVersion13 \/ v.val.Max = TLSVersion13

\* (*stats.SampleTags).IsEmpty: a nil set of tags is empty too.
IsEmpty(st) == st.isNil \/ st.val = {}

\* Options{}: every field has the zero value of its type.
ZeroOptions ==
    [f \in OptionFields |->
        IF f \in NullFields THEN NullZero
        ELSE IF f = "DNS" THEN [s \in DNSFields |-> NullZero]
        ELSE Nil]

\* What a caller stores in field f: `set` in the Options it applies to,
\* `given` in the Options it applies.  A null value may be Valid with the zero
\* content or hold content without being Valid; a slice, a map or a set of
\* tags may be empty without being nil.
FieldValues(f, word) ==
    IF f \in NullFields \cup DNSFields
    THEN {Null(TRUE, word), Null(TRUE, ""), Null(FALSE, word)}
    ELSE IF f = "TLSVersion"
    THEN {Ref([Min |-> AnyTLSVersion, Max |-> "tls1.2"]),
          Ref([Min |-> AnyTLSVersion, Max |-> TLSVersion13])}
    ELSE IF f \in SliceFields THEN {Ref(<<>>), Ref(<<word>>)}
    ELSE {Ref({}), Ref({word})}

\* Options with every field holding content.
FullOptions(word) ==
    [f \in OptionFields |->
        IF f \in NullFields THEN Null(TRUE, word)
        ELSE IF f = "DNS" THEN [s \in DNSFields |-> Null(TRUE, word)]
        ELSE IF f = "TLSVersion"
        THEN Ref([Min |-> "tls1.0", Max |-> IF word = "given" THEN TLSVersion13 ELSE "tls1.2"])
        ELSE IF f \in SliceFields THEN Ref(<<word>>)
        ELSE Ref({word})]

Receivers == {ZeroOptions, FullOptions("set")}

\* The number of fields of opts that differ from the zero Options.
Overridden(opts) ==
    Cardinality({f \in OptionFields \ {"DNS"} : opts[f] # ZeroOptions[f]})
        + Cardinality({s \in DNSFields : opts.DNS[s] # NullZero})

\* Apply with the test of the slices and maps being their length.
ApplyNonEmpty(o, opts) ==
    [f \in OptionFields |->
        IF f \in NullFields THEN (IF opts[f].Valid THEN opts[f] ELSE o[f])
        ELSE IF f = "DNS"
        THEN [s \in DNSFields |-> IF opts.DNS[s].Valid THEN opts.DNS[s] ELSE o.DNS[s]]
        ELSE IF f = "RunTags" THEN (IF ~IsEmpty(opts[f]) THEN opts[f] ELSE o[f])
        ELSE IF f \in SliceFields
        THEN (IF ~opts[f].isNil /\ opts[f].val # <<>> THEN opts[f] ELSE o[f])
        ELSE IF f \in MapFields
        THEN (IF ~opts[f].isNil /\ opts[f].val # {} THEN opts[f] ELSE o[f])
        ELSE (IF ~opts[f].isNil THEN opts[f] ELSE o[f])]

\* func (o Options) Apply(opts Options) Options: the value returned.
Apply(o, opts) ==
    [RPS                     |-> IF opts.RPS.Valid THEN opts.RPS ELSE o.RPS,
     MaxRedirects            |-> IF opts.MaxRedirects.Valid THEN opts.MaxRedirects ELSE o.MaxRedirects,
     UserAgent               |-> IF opts.UserAgent.Valid THEN opts.UserAgent ELSE o.UserAgent,
     Batch                   |-> IF opts.Batch.Valid THEN opts.Batch ELSE o.Batch,
     BatchPerHost            |-> IF opts.BatchPerHost.Valid THEN opts.BatchPerHost ELSE o.BatchPerHost,
     HTTPDebug               |-> IF opts.HTTPDebug.Valid THEN opts.HTTPDebug ELSE o.HTTPDebug,
     InsecureSkipTLSVerify   |-> IF opts.InsecureSkipTLSVerify.Valid
                                 THEN opts.InsecureSkipTLSVerify ELSE o.InsecureSkipTLSVerify,
     TLSCipherSuites         |-> IF ~opts.TLSCipherSuites.isNil
                                 THEN opts.TLSCipherSuites ELSE o.TLSCipherSuites,
     TLSVersion              |-> IF ~opts.TLSVersion.isNil THEN opts.TLSVersion ELSE o.TLSVersion,
     TLSAuth                 |-> IF ~opts.TLSAuth.isNil THEN opts.TLSAuth ELSE o.TLSAuth,
     Throw                   |-> IF opts.Throw.Valid THEN opts.Throw ELSE o.Throw,
     Thresholds              |-> IF ~opts.Thresholds.isNil THEN opts.Thresholds ELSE o.Thresholds,
     BlacklistIPs            |-> IF ~opts.BlacklistIPs.isNil THEN opts.BlacklistIPs ELSE o.BlacklistIPs,
     BlockedHostnames        |-> IF opts.BlockedHostnames.Valid
                                 THEN opts.BlockedHostnames ELSE o.BlockedHostnames,
     Hosts                   |-> IF ~opts.Hosts.isNil THEN opts.Hosts ELSE o.Hosts,
     NoConnectionReuse       |-> IF opts.NoConnectionReuse.Valid
                                 THEN opts.NoConnectionReuse ELSE o.NoConnectionReuse,
     NoCookiesReset          |-> IF opts.NoCookiesReset.Valid
                                 THEN opts.NoCookiesReset ELSE o.NoCookiesReset,
     External                |-> IF ~opts.External.isNil THEN opts.External ELSE o.External,
     SummaryTrendStats       |-> IF ~opts.SummaryTrendStats.isNil
                                 THEN opts.SummaryTrendStats ELSE o.SummaryTrendStats,
     SummaryTimeUnit         |-> IF opts.SummaryTimeUnit.Valid
                                 THEN opts.SummaryTimeUnit ELSE o.SummaryTimeUnit,
     SystemTags              |-> IF ~opts.SystemTags.isNil THEN opts.SystemTags ELSE o.SystemTags,
     RunTags                 |-> IF ~IsEmpty(opts.RunTags) THEN opts.RunTags ELSE o.RunTags,
     MetricSamplesBufferSize |-> IF opts.MetricSamplesBufferSize.Valid
                                 THEN opts.MetricSamplesBufferSize ELSE o.MetricSamplesBufferSize,
     DiscardResponseBodies   |-> IF opts.DiscardResponseBodies.Valid
                                 THEN opts.DiscardResponseBodies ELSE o.DiscardResponseBodies,
     ConsoleOutput           |-> IF opts.ConsoleOutput.Valid THEN opts.ConsoleOutput ELSE o.ConsoleOutput,
     LocalIPs                |-> IF opts.LocalIPs.Valid THEN opts.LocalIPs ELSE o.LocalIPs,
     DNS                     |-> [TTL    |-> IF opts.DNS.TTL.Valid THEN opts.DNS.TTL ELSE o.DNS.TTL,
                                  Select |-> IF opts.DNS.Select.Valid THEN opts.DNS.Select ELSE o.DNS.Select,
                                  Policy |-> IF opts.DNS.Policy.Valid THEN opts.DNS.Policy ELSE o.DNS.Policy]]

\* The caller takes other Options to apply to.
Receiver(o) ==
    /\ config.o # o
    /\ config' = [config EXCEPT !.o = o]
    /\ event' = NoEvent
    /\ UNCHANGED <<bindings, appCtx, cancelled, made, given, dialer>>
    /\ UNCHANGED rtVars
    /\ UNCHANGED shareVars
    /\ UNCHANGED bridgeVars
    /\ UNCHANGED nameVars

\* The caller stores v in field f of the Options it is going to apply.
Override(f, v) ==
    /\ Overridden(config.opts) < MaxOverrides
    /\ config.opts[f] = ZeroOptions[f]
    /\ config' = [config EXCEPT !.opts[f] = v]
    /\ event' = NoEvent
    /\ UNCHANGED <<bindings, appCtx, cancelled, made, given, dialer>>
    /\ UNCHANGED rtVars
    /\ UNCHANGED shareVars
    /\ UNCHANGED bridgeVars
    /\ UNCHANGED nameVars

\* The same for a field of the DNS configuration.
OverrideDNS(s, v) ==
    /\ Overridden(config.opts) < MaxOverrides
    /\ config.opts.DNS[s] = NullZero
    /\ config' = [config EXCEPT !.opts.DNS[s] = v]
    /\ event' = NoEvent
    /\ UNCHANGED <<bindings, appCtx, cancelled, made, given, dialer>>
    /\ UNCHANGED rtVars
    /\ UNCHANGED shareVars
    /\ UNCHANGED bridgeVars
    /\ UNCHANGED nameVars

\* The caller starts over, from no field or from every field stored.
Given(opts) ==
    /\ config.opts # opts
    /\ config' = [config EXCEPT !.opts = opts]
    /\ event' = NoEvent
    /\ UNCHANGED <<bindings, appCtx, cancelled, made, given, dialer>>
    /\ UNCHANGED rtVars
    /\ UNCHANGED shareVars
    /\ UNCHANGED bridgeVars
    /\ UNCHANGED nameVars

\* merged := o.Apply(opts).  Receiver and argument are passed by value; a
\* TLS version given with 1.3 as a limit enables TLS 1.3 for the process.
ApplyOptions ==
    /\ config' = [config EXCEPT !.tls13 =
                      @ \/ (~config.opts.TLSVersion.isNil
                              /\ IsTLS13(Apply(config.o, config.opts).TLSVersion))]
    /\ event' = [kind |-> "apply", o |-> config.o, opts |-> config.opts,
                 merged |-> Apply(config.o, config.opts)]
    /\ UNCHANGED <<bindings, appCtx, cancelled, made, given, dialer>>
    /\ UNCHANGED rtVars
    /\ UNCHANGED shareVars
    /\ UNCHANGED bridgeVars
    /\ UNCHANGED nameVars

(***************************************************************************)
(* Runtime.Set / Runtime.ToValue and convertValue (src/main.go): the native *)
(* values an application hands over, mappings nested in mappings included. *)
(***************************************************************************)
MaxNesting == 2

MapKeys == {"x", "y"}

\* A nil interface, a number, a function without context, a map[string]string,
\* and the two kinds of function that take a context first.
NilValue == [kind |-> "nil"]
CtxFunction == [kind |-> "func(ctx, FunctionCall)"]
CtxConstructor == [kind |-> "func(ctx, ConstructorCall)"]
PlainValues == {NilValue, [kind |-> "int"], [kind |-> "func"], [kind |-> "map[string]string"]}

\* A map[string]interface{}: who made it, and its entries.
Mapping(by, m) == [kind |-> "map[string]interface{}", by |-> by, m |-> m]
IsMapping(value) == value.kind = "map[string]interface{}"
EmptyMapping == Mapping("caller", <<>>)

Leaves == PlainValues \cup {CtxFunction, CtxConstructor, EmptyMapping}

\* How deep mappings are nested in a value.
RECURSIVE Nesting(_)
Nesting(value) ==
    IF ~IsMapping(value) THEN 0
    ELSE 1 + (IF DOMAIN value.m = {} THEN 0
              ELSE LET deepest == CHOOSE k \in DOMAIN value.m :
                                     \A j \in DOMAIN value.m :
                                         Nesting(value.m[j]) <= Nesting(value.m[k])
                   IN Nesting(value.m[deepest]))

\* The closure convertValue returns for a function that takes a context: when
\* called it calls that function with r.ctx as it is then.
Closure(fn) == [kind |-> "closure", of |-> fn, passes |-> "r.ctx"]

\* A convertValue that rewrites the values of the outermost mapping only.
convertValueShallow(value) ==
    IF value \in {CtxFunction, CtxConstructor} THEN Closure(value)
    ELSE IF IsMapping(value)
    THEN Mapping("convertValue",
             [k \in DOMAIN value.m |->
                 IF value.m[k] \in {CtxFunction, CtxConstructor}
                 THEN Closure(value.m[k]) ELSE value.m[k]])
    ELSE value

\* func (r *Runtime) convertValue(value interface{}) interface{}
RECURSIVE convertValue(_)
convertValue(value) ==
    IF value = CtxFunction THEN Closure(value)
    ELSE IF value = CtxConstructor THEN Closure(value)
    ELSE IF IsMapping(value)
    THEN Mapping("convertValue", [k \in DOMAIN value.m |-> convertValue(value.m[k])])
    ELSE value

\* The application takes a value to hand over.
TakeValue(leaf) ==
    /\ given # leaf
    /\ given' = leaf
    /\ event' = NoEvent
    /\ UNCHANGED <<bindings, appCtx, cancelled, made, config, dialer>>
    /\ UNCHANGED rtVars
    /\ UNCHANGED shareVars
    /\ UNCHANGED bridgeVars
    /\ UNCHANGED nameVars

\* It puts the value in a new mapping, under a key.
PutInMapping(key) ==
    /\ Nesting(given) < MaxNesting
    /\ given' = Mapping("caller", Put(<<>>, key, given))
    /\ event' = NoEvent
    /\ UNCHANGED <<bindings, appCtx, cancelled, made, config, dialer>>
    /\ UNCHANGED rtVars
    /\ UNCHANGED shareVars
    /\ UNCHANGED bridgeVars
    /\ UNCHANGED nameVars

\* It adds an entry to the mapping.
AddEntry(key, leaf) ==
    /\ IsMapping(given)
    /\ key \notin DOMAIN given.m
    /\ Nesting(leaf) < MaxNesting
    /\ given' = Mapping("caller", Put(given.m, key, leaf))
    /\ event' = NoEvent
    /\ UNCHANGED <<bindings, appCtx, cancelled, made, config, dialer>>
    /\ UNCHANGED rtVars
    /\ UNCHANGED shareVars
    /\ UNCHANGED bridgeVars
    /\ UNCHANGED nameVars

\* Runtime.Set(name, value) or Runtime.ToValue(value): the engine is handed
\* convertValue(value).
SetValue ==
    /\ event' = [kind |-> "convert", value |-> given, converted |-> convertValue(given)]
    /\ UNCHANGED <<bindings, appCtx, cancelled, made, config, given, dialer>>
    /\ UNCHANGED rtVars
    /\ UNCHANGED shareVars
    /\ UNCHANGED bridgeVars
    /\ UNCHANGED nameVars

(***************************************************************************)
(* netext.Dialer and netext.Conn (src/lib/netext/tlsconfig.go): the byte   *)
(* counters the Conns of a Dialer add to and GetTrail takes and resets.    *)
(* Conn.Read, Conn.Write and GetTrail run on goroutines of their own; each *)
(* atomic operation on a counter is a step.                                *)
(***************************************************************************)
MaxBytes == 3    \* bytes the Conns read, and bytes they write, in all
MaxChunk == 2    \* bytes one Read or Write transfers
MaxTrails == 2   \* GetTrail calls

Conns == {"c1", "c2"}

NoCall == [pc |-> "none", bytesWritten |-> 0, bytesRead |-> 0,
           quietWritten |-> FALSE, quietRead |-> FALSE]

\* A Dialer as NewDialer returns it, no Conn dialled yet. Besides the two
\* counters: the GetTrail call in progress with its locals, the trails GetTrail
\* has returned, the bytes added to each counter in all, and whether a Conn
\* has added bytes since GetTrail last returned, last took BytesWritten, last
\* took BytesRead.
NewDialer ==
    [BytesRead |-> 0, BytesWritten |-> 0,
     call |-> NoCall,
     trails |-> <<>>,
     counted |-> [read |-> 0, written |-> 0],
     since |-> [return |-> FALSE, written |-> FALSE, read |-> FALSE]]

\* A swap that reads the counter and leaves it as it is.
LoadInt64(addr, new) == [old |-> addr, now |-> addr]

\* atomic.SwapInt64: the old value is returned, the new one stored, at once.
SwapInt64(addr, new) == [old |-> addr, now |-> new]

\* atomic.AddInt64.
AddInt64(addr, delta) == addr + delta

\* Conn.Read: the connection under it has read n bytes; nothing is added
\* when n is 0.
ConnRead(c, n) ==
    /\ dialer.counted.read + n <= MaxBytes
    /\ dialer' = IF n > 0
                 THEN [dialer EXCEPT !.BytesRead = AddInt64(@, n),
                                     !.counted.read = @ + n,
                                     !.since.return = TRUE,
                                     !.since.read = TRUE]
                 ELSE dialer
    /\ event' = NoEvent
    /\ UNCHANGED <<bindings, appCtx, cancelled, made, config, given>>
    /\ UNCHANGED rtVars
    /\ UNCHANGED shareVars
    /\ UNCHANGED bridgeVars
    /\ UNCHANGED nameVars

\* Conn.Write: the connection under it has written n bytes; nothing is
\* added when n is 0.
ConnWrite(c, n) ==
    /\ dialer.counted.written + n <= MaxBytes
    /\ dialer' = IF n > 0
                 THEN [dialer EXCEPT !.BytesWritten = AddInt64(@, n),
                                     !.counted.written = @ + n,
                                     !.since.return = TRUE,
                                     !.since.written = TRUE]
                 ELSE dialer
    /\ event' = NoEvent
    /\ UNCHANGED <<bindings, appCtx, cancelled, made, config, given>>
    /\ UNCHANGED rtVars
    /\ UNCHANGED shareVars
    /\ UNCHANGED bridgeVars
    /\ UNCHANGED nameVars

\* GetTrail, first statement: bytesWritten := atomic.SwapInt64(&d.BytesWritten, 0)
GetTrailSwapWritten ==
    /\ dialer.call = NoCall
    /\ Len(dialer.trails) < MaxTrails
    /\ LET swap == SwapInt64(dialer.BytesWritten, 0) IN
       dialer' = [dialer EXCEPT !.BytesWritten = swap.now,
                                !.call = [NoCall EXCEPT !.pc = "swapRead",
                                                        !.bytesWritten = swap.old,
                                                        !.quietWritten = ~dialer.since.written],
                                !.since.written = FALSE]
    /\ event' = NoEvent
    /\ UNCHANGED <<bindings, appCtx, cancelled, made, config, given>>
    /\ UNCHANGED rtVars
    /\ UNCHANGED shareVars
    /\ UNCHANGED bridgeVars
    /\ UNCHANGED nameVars

\* GetTrail, second statement: bytesRead := atomic.SwapInt64(&d.BytesRead, 0)
GetTrailSwapRead ==
    /\ dialer.call.pc = "swapRead"
    /\ LET swap == SwapInt64(dialer.BytesRead, 0) IN
       dialer' = [dialer EXCEPT !.BytesRead = swap.now,
                                !.call.pc = "return",
                                !.call.bytesRead = swap.old,
                                !.call.quietRead = ~dialer.since.read,
                                !.since.read = FALSE]
    /\ event' = NoEvent
    /\ UNCHANGED <<bindings, appCtx, cancelled, made, config, given>>
    /\ UNCHANGED rtVars
    /\ UNCHANGED shareVars
    /\ UNCHANGED bridgeVars
    /\ UNCHANGED nameVars

\* GetTrail returns the NetTrail made of its two locals.
GetTrailReturn ==
    /\ dialer.call.pc = "return"
    /\ LET trail == [BytesRead |-> dialer.call.bytesRead,
                     BytesWritten |-> dialer.call.bytesWritten] IN
       /\ dialer' = [dialer EXCEPT !.call = NoCall,
                                   !.trails = Append(@, trail),
                                   !.since.return = FALSE]
       /\ event' = [kind |-> "trail", trail |-> trail,
                    quiet |-> ~dialer.since.return,
                    quietWritten |-> dialer.call.quietWritten,
                    quietRead |-> dialer.call.quietRead]
    /\ UNCHANGED <<bindings, appCtx, cancelled, made, config, given>>
    /\ UNCHANGED rtVars
    /\ UNCHANGED shareVars
    /\ UNCHANGED bridgeVars
    /\ UNCHANGED nameVars

(***************************************************************************)
(* The specifications.                                                     *)
(***************************************************************************)
vars == <<rtVars, shareVars, bridgeVars, nameVars, embedVars, event>>

Init ==
    /\ ctxCell = [r \in Runtimes |-> NilCtx]
    /\ evalStack = [r \in Runtimes |-> <<>>]
    /\ pc = [r \in Runtimes |-> "idle"]
    /\ globals = [r \in Runtimes |-> {}]
    /\ regCell = [r \in Runtimes |-> NilCtx]
    /\ cur = [r \in Runtimes |-> NoCur]
    /\ entry = [k \in Keys |-> NoEntry]
    /\ heap = <<>>
    /\ invoked = [k \in Keys |-> NoRuns]
    /\ held = [r \in Runtimes |-> [n \in ArrayNames |-> 0]]
    /\ failurePolicy \in {"retry", "poison"}
    /\ bound = NoMethod
    /\ result = NoResult
    /\ ident = <<>>
    /\ tag = <<>>
    /\ mapped = NoName
    /\ bindings = [r \in Runtimes |-> <<>>]
    /\ appCtx = Background
    /\ cancelled = [r \in Runtimes |-> FALSE]
    /\ made = <<>>
    /\ config = [o |-> ZeroOptions, opts |-> ZeroOptions, tls13 |-> FALSE]
    /\ given = NilValue
    /\ dialer = NewDialer
    /\ event = NoEvent

\* Evaluations that follow one another on each Runtime, with the callbacks the
\* scripts call.
SeqNext ==
    \/ \E rt \in Runtimes : SetFn(rt)
    \/ \E rt \in Runtimes, ctx \in Contexts : RunTop(rt, ctx)
    \/ \E rt \in Runtimes : EndEval(rt)
    \/ \E rt \in Runtimes : CallNative(rt)

SpecSeq == Init /\ [][SeqNext]_vars

\* The same with callbacks that evaluate again under a context of their own.
Next ==
    \/ SeqNext
    \/ \E rt \in Runtimes, ctx \in Contexts : RunNested(rt, ctx)

Spec == Init /\ [][Next]_vars

\* The same with an application that also calls f between evaluations, under
\* two of the contexts.
HostContexts == {CtxEnvB, CtxOther}

HostNext ==
    \/ \E rt \in Runtimes : SetFn(rt)
    \/ \E rt \in Runtimes, ctx \in HostContexts : RunTop(rt, ctx)
    \/ \E rt \in Runtimes, ctx \in HostContexts : RunNested(rt, ctx)
    \/ \E rt \in Runtimes : EndEval(rt)
    \/ \E rt \in Runtimes : CallNative(rt)
    \/ \E rt \in Runtimes : CallFromHost(rt)

SpecHost == Init /\ [][HostNext]_vars

\* One Runtime in the middle of an evaluation, its script calling the methods
\* Bind exported.
InitWrap ==
    /\ ctxCell = [r \in Runtimes |-> IF r = "r1" THEN WithRuntime(CtxEnvB, "r1") ELSE NilCtx]
    /\ evalStack = [r \in Runtimes |-> IF r = "r1" THEN <<CtxEnvB>> ELSE <<>>]
    /\ pc = [r \in Runtimes |-> IF r = "r1" THEN "script" ELSE "idle"]
    /\ globals = [r \in Runtimes |-> {}]
    /\ regCell = [r \in Runtimes |-> NilCtx]
    /\ cur = [r \in Runtimes |-> NoCur]
    /\ entry = [k \in Keys |-> NoEntry]
    /\ heap = <<>>
    /\ invoked = [k \in Keys |-> NoRuns]
    /\ held = [r \in Runtimes |-> [n \in ArrayNames |-> 0]]
    /\ failurePolicy = "retry"
    /\ bound = NoMethod
    /\ result = NoResult
    /\ ident = <<>>
    /\ tag = <<>>
    /\ mapped = NoName
    /\ bindings = [r \in Runtimes |-> <<>>]
    /\ appCtx = Background
    /\ cancelled = [r \in Runtimes |-> FALSE]
    /\ made = <<>>
    /\ config = [o |-> ZeroOptions, opts |-> ZeroOptions, tls13 |-> FALSE]
    /\ given = NilValue
    /\ dialer = NewDialer
    /\ event = NoEvent

WrapNext ==
    \/ BindMethod
    \/ CallWrapped("r1")
    \/ ScriptGoesOn

SpecWrap == InitWrap /\ [][WrapNext]_vars

\* The embedding application deriving contexts and asking for their Runtime.
CtxNext ==
    \/ \E key \in UserKeys, val \in UserVals : DeriveValue(key, val)
    \/ \E rt \in Runtimes : AttachRuntime(rt)
    \/ RetrieveRuntime

SpecCtx == Init /\ [][CtxNext]_vars

\* The embedding application binding host objects on a Runtime.
BindNext ==
    \E name \in BindNames, v \in HostObjects : Bind("r1", name, v)

SpecBind == Init /\ [][BindNext]_vars

\* ToBindObject going over methods of every signature.
ExportNext ==
    \/ \E name \in MethodNames, sig \in Signatures : ExportMethod(name, sig)
    \/ NextMethod

SpecExport == Init /\ [][ExportNext]_vars

\* Reflection over the members of bound types, one identifier at a time.
NamesNext ==
    \/ AppendWord
    \/ SetTag
    \/ MapMethod
    \/ MapField
    \/ NextMember

SpecNames == Init /\ [][NamesNext]_vars

\* Runtimes that share one cache constructing, reading and writing arrays.
ShareNext ==
    \/ \E rt \in Runtimes : BindData(rt)
    \/ \E rt \in Runtimes, ctx \in ShareContexts : RunTop(rt, ctx)
    \/ \E rt \in Runtimes : EndEval(rt)
    \/ \E rt \in Runtimes, n \in CallNames : \E f \in Factories(rt) : XSharedArray(rt, n, f)
    \/ \E rt \in Runtimes : FactoryFinish(rt)
    \/ \E rt \in Runtimes : WaitDone(rt)
    \/ \E rt \in Runtimes, n \in ArrayNames : ReadArray(rt, n)
    \/ \E rt \in Runtimes, n \in ArrayNames, strict \in BOOLEAN : WriteArray(rt, n, strict)

SpecShare == Init /\ [][ShareNext]_vars

\* Runtimes that construct shared arrays under contexts the application
\* cancels.
CancelNext ==
    \/ \E rt \in Runtimes : BindData(rt)
    \/ \E rt \in Runtimes : RunTop(rt, CtxEnvB)
    \/ \E rt \in Runtimes, n \in ArrayNames : \E f \in Factories(rt) : XSharedArray(rt, n, f)
    \/ \E rt \in Runtimes : FactoryFinish(rt)
    \/ \E rt \in Runtimes : WaitDone(rt)
    \/ \E rt \in Runtimes : CancelContext(rt)

SpecCancel == Init /\ [][CancelNext]_vars

\* The embedding application constructing Runtimes.
NewNext ==
    \E opts \in RuntimeOptions \cup {NilOptions}, coreFails \in BOOLEAN :
        Construct(opts, coreFails)

SpecNew == Init /\ [][NewNext]_vars

\* A caller building Options and applying one to the other.
ApplyNext ==
    \/ \E o \in Receivers : Receiver(o)
    \/ \E f \in OptionFields \ {"DNS"} : \E v \in FieldValues(f, "given") : Override(f, v)
    \/ \E s \in DNSFields : \E v \in FieldValues(s, "given") : OverrideDNS(s, v)
    \/ \E opts \in {ZeroOptions, FullOptions("given")} : Given(opts)
    \/ ApplyOptions

SpecApply == Init /\ [][ApplyNext]_vars

\* The application building native values and handing them to Set / ToValue.
ConvertNext ==
    \/ \E leaf \in Leaves : TakeValue(leaf)
    \/ \E key \in MapKeys : PutInMapping(key)
    \/ \E key \in MapKeys, leaf \in Leaves : AddEntry(key, leaf)
    \/ SetValue

SpecConvert == Init /\ [][ConvertNext]_vars

\* The Conns of a Dialer reading and writing while GetTrail is called on it.
TrailNext ==
    \/ \E c \in Conns, n \in 0..MaxChunk : ConnRead(c, n)
    \/ \E c \in Conns, n \in 0..MaxChunk : ConnWrite(c, n)
    \/ GetTrailSwapWritten
    \/ GetTrailSwapRead
    \/ GetTrailReturn

SpecTrail == Init /\ [][TrailNext]_vars

(***************************************************************************)
(* The claims about the context cell (Spec, SpecSeq).                      *)
(***************************************************************************)

\* C1: with evaluations following one another on a Runtime, a context-taking
\* native function that a script calls during the evaluation under Ci is
\* handed a context that carries Ci's key/values, whatever the earlier
\* evaluations ran under and whatever the cell held when it was registered.
C1_CallbackSeesEvaluationContext ==
    event.kind = "call" =>
        /\ ~event.got.nil
        /\ \A k \in UserKeys : Value(event.got, k) = Value(event.under, k)

\* C1 witness: f was registered after an evaluation under one context and is
\* called during a later evaluation under a context with other values.
C1_Witness ==
    /\ event.kind = "call"
    /\ ~regCell[event.rt].nil
    /\ Value(regCell[event.rt], "a") = "b"
    /\ Value(event.under, "a") = "c"
    /\ Value(event.got, "a") = "c"

\* C2: a callback that the top-level evaluation under C triggers is handed C,
\* also after a nested evaluation under another context has returned.
C2_CellRestoredAfterNested ==
    (event.kind = "call" /\ event.depth = 1) =>
        \A k \in UserKeys : Value(event.got, k) = Value(event.under, k)

(***************************************************************************)
(* The claims about shared arrays (SpecShare).                             *)
(***************************************************************************)
Holders(name) == {r \in Runtimes : held[r][name] # 0}

ContentOf(o) == [i \in 1..Len(ArrayOf(o)) |-> JSONParse(JSONStringify(ArrayOf(o)[i]))]

C4_State ==
    /\ \A n \in ArrayNames :
          (entry[Key(n)].state = "done" /\ ~entry[Key(n)].failed) =>
              /\ WrapRead(entry[Key(n)].value) = ContentOf(entry[Key(n)].owner)
              /\ \A r \in Runtimes : pc[r] = "factory" => cur[r].name # n
    /\ event.kind = "read" =>
          event.content = ContentOf(entry[Key(event.name)].owner)

C4_Step ==
    \A k \in Keys :
        (entry[k].state = "done" /\ ~entry[k].failed) =>
            /\ entry'[k] = entry[k]
            /\ invoked'[k] = invoked[k]

\* C4: once a factory has succeeded for a name, no factory runs for that name
\* again, whichever Runtime asks and with whichever closure, and every Runtime
\* reads the length and the elements that the successful run produced.
C4_SecondFactoryNeverRuns == []C4_State /\ [][C4_Step]_vars

\* C4 witness: a Runtime reads an array that the closure of the other Runtime
\* made, after asking for it with a closure of its own.
C4_Witness ==
    /\ event.kind = "read"
    /\ event.rt # entry[Key(event.name)].owner
    /\ Holders(event.name) = Runtimes
    /\ ContentOf(event.rt) # event.content

\* C6: a write from script to a shared array throws in strict mode, and no
\* write, strict or not, changes what the Runtimes read afterwards.
C6_WritesRejected ==
    event.kind = "write" =>
        /\ event.strict => event.threw
        /\ heap[event.id] = event.before
        /\ WrapRead(event.id) = [i \in 1..Len(event.before) |-> JSONParse(event.before[i])]

\* C6 witness: a strict-mode write by a Runtime to the array another Runtime made.
C6_Witness ==
    /\ event.kind = "write"
    /\ event.strict
    /\ event.threw
    /\ event.rt # entry[Key(event.name)].owner

(***************************************************************************)
(* The claims about the wrapper of an exported method (SpecWrap).          *)
(***************************************************************************)
Called == result # NoResult

\* The declared parameters that are neither the injected context nor the
\* variadic one, and the script arguments they and the variadic one stand for.
FixedCount(sig) == numIn(sig) - reservedArgs(sig) - (IF sig.variadic THEN 1 ELSE 0)
FixedType(sig, q) == sig.ins[reservedArgs(sig) + q]
TakesCallDescriptor(sig) == \E q \in 1..FixedCount(sig) : FixedType(sig, q) = fnCallT

\* Script argument q of the call is exported by the wrapper, and cannot be.
FailsToConvert(sig, callArgs, q) ==
    /\ q \in 1..Len(callArgs)
    /\ \A q2 \in 1..FixedCount(sig) : q2 <= q => FixedType(sig, q2) # fnCallT
    /\ IF q <= FixedCount(sig)
       THEN ~IsUndefined(callArgs[q]) /\ ~ExportTo(callArgs[q], FixedType(sig, q)).ok
       ELSE sig.variadic /\ ~ExportTo(callArgs[q], sig.ins[numIn(sig)]).ok

\* C5: a wrapped method that returns (T, error), once called, gives the script
\* an exception that carries the error and no value when the error is non-nil,
\* and the converted first result only when the error is nil.
C5_ErrorBecomesException ==
    (Called /\ bound.outs = <<"val", errorT>> /\ result.out.invoked) =>
        IF result.fails
        THEN /\ result.out.kind = "exception"
             /\ result.out.err = Returns(bound, TRUE)[2].v
             /\ result.out.value = NoScriptValue
        ELSE /\ result.out.kind = "returned"
             /\ result.out.value = ToValue(Returns(bound, FALSE)[1])

\* C5 witness: a context-taking method that returns (T, error) and fails.
C5_Witness ==
    /\ Called
    /\ bound.outs = <<"val", errorT>>
    /\ wantsContext(bound)
    /\ result.fails
    /\ result.out.invoked
    /\ result.out.kind = "exception"

\* C7: a wrapped variadic method whose p fixed parameters are filled from
\* script arguments, called with arguments that all convert: with p+k
\* arguments, k >= 1, the method gets a variadic slice of exactly the k
\* conversions of arguments p+1..p+k, in order; with p or fewer, an empty one.
C7_VariadicSlice ==
    (/\ Called
     /\ bound.variadic
     /\ ~TakesCallDescriptor(bound)
     /\ \A q \in 1..Len(result.callArgs) : ~FailsToConvert(bound, result.callArgs, q)) =>
        LET p == FixedCount(bound)
            n == Len(result.callArgs)
            T == bound.ins[numIn(bound)]
        IN /\ result.out.invoked
           /\ LET va == result.out.args[numIn(bound)] IN
              /\ va.t = "slice"
              /\ Len(va.elems) = (IF n > p THEN n - p ELSE 0)
              /\ \A j \in 1..Len(va.elems) :
                    va.elems[j] = ExportTo(result.callArgs[p + j], T).v

\* C7 witness: a context-taking variadic method with one fixed parameter,
\* called with three arguments.
C7_Witness ==
    /\ Called
    /\ bound.variadic
    /\ wantsContext(bound)
    /\ FixedCount(bound) = 1
    /\ Len(result.callArgs) = 3
    /\ result.out.invoked
    /\ Len(result.out.args[numIn(bound)].elems) = 2

\* C8: when a script argument the wrapper exports, positional or variadic,
\* cannot be converted, the call ends in a script exception and the host
\* method is not invoked.
C8_ConversionFailureAborts ==
    (Called /\ \E q \in 1..Len(result.callArgs) : FailsToConvert(bound, result.callArgs, q)) =>
        /\ result.out.kind = "exception"
        /\ ~result.out.invoked
        /\ result.out.args = <<>>

\* C8 witness: the second element of the variadic tail cannot be converted.
C8_Witness ==
    /\ Called
    /\ bound.variadic
    /\ Len(result.callArgs) = FixedCount(bound) + 2
    /\ FailsToConvert(bound, result.callArgs, FixedCount(bound) + 2)
    /\ ~FailsToConvert(bound, result.callArgs, FixedCount(bound) + 1)
    /\ result.out.kind = "exception"

(***************************************************************************)
(* The claims about the name mapper (SpecNames).                           *)
(***************************************************************************)

C11_FieldsExported ==
    event.kind = "bind" =>
        LET exports == bindings[event.rt][event.name]
            fs == event.v.fields
        IN /\ \A i \in 1..Len(fs) :
                 FieldName(fs[i]) # <<>> =>
                     /\ FieldName(fs[i]) \in DOMAIN exports
                     /\ exports[FieldName(fs[i])].kind = "field"
           /\ \A k \in DOMAIN exports :
                 exports[k].kind = "field" =>
                     /\ k # <<>>
                     /\ \E i \in 1..Len(fs) :
                           fs[i].Name = exports[k].of /\ FieldName(fs[i]) = k

\* C11 witness: a pointer to a struct with a hidden field and a field that is
\* exported under its snake-case name.
C11_Witness ==
    /\ event.kind = "bind"
    /\ event.v.ptr
    /\ event.v.fields = <<StructField(WordOCSP, TagHide), StructField(WordURLID, <<>>)>>
    /\ DOMAIN bindings[event.rt][event.name] = {MethodName(WordGet), CamelToSnake(WordURLID)}

(***************************************************************************)
(* The claims about contexts and their Runtime (SpecCtx).                  *)
(***************************************************************************)
HasRuntimeLink(ctx) == \E i \in 1..Len(ctx.kv) : ctx.kv[i][1] = ctxKeyRuntime

\* C12: GetRuntime of WithRuntime(ctx, rt) is rt, whatever ctx carried
\* before, another Runtime included; the keys of the application read through
\* the context WithRuntime returns as they did through ctx; and GetRuntime of
\* a context that no Runtime was attached to is nil.
C12_AttachThenRetrieve ==
    /\ event.kind = "attach" =>
          /\ GetRuntime(appCtx) = event.rt
          /\ \A k \in UserKeys : Value(appCtx, k) = Value(event.before, k)
    /\ event.kind = "retrieve" =>
          /\ ~HasRuntimeLink(event.ctx) => event.got = NoValue
          /\ HasRuntimeLink(event.ctx) => event.got \in Runtimes

\* C12 witness: a Runtime attached to a context that carries a key of the
\* application and another Runtime.
C12_Witness ==
    /\ event.kind = "attach"
    /\ GetRuntime(event.before) \in Runtimes \ {event.rt}
    /\ Value(event.before, "a") = "b"
    /\ GetRuntime(appCtx) = event.rt

(***************************************************************************)
(* More claims about the shared-object cache (SpecShare).                  *)
(***************************************************************************)

\* A step in which the factory of entry k ends in failure.
FactoryFails(k) == invoked'[k].failed = invoked[k].failed + 1

C13_Step ==
    \A k \in Keys :
        FactoryFails(k) =>
            /\ event'.kind = "exception"
            /\ pc[event'.rt] = "factory"
            /\ Key(cur[event'.rt].name) = k
            /\ \A j \in Keys \ {k} : entry'[j] = entry[j] /\ invoked'[j] = invoked[j]
            /\ heap' = heap
            /\ held' = held

C13_State ==
    \A n \in ArrayNames :
        (\E m \in ArrayNames \ {n} : invoked[Key(m)].failed > 0) =>
            /\ entry[Key(n)].state = "unstarted" => invoked[Key(n)].n = invoked[Key(n)].failed
            /\ (event.kind = "array" /\ event.name = n) =>
                  /\ invoked[Key(n)].n - invoked[Key(n)].failed = 1
                  /\ event.id = entry[Key(n)].value
                  /\ heap[event.id] =
                        getShareArrayFromCall([out |-> "array",
                                               elems |-> ArrayOf(entry[Key(n)].owner)]).arr

\* C13: the failure of the factory of one name is raised in the caller that
\* ran that factory, and changes nothing about the entries, the invocations and
\* the values of the other names: a caller that asks for another name, while
\* or after that factory fails, is answered with the value that name's one
\* successful factory run produced.
C13_FailureStaysWithItsName == []C13_State /\ [][C13_Step]_vars

\* C13 witness: a caller is handed the array of one name after the factory of
\* another name has failed and before any factory of that other name succeeds.
C13_Witness ==
    /\ event.kind = "array"
    /\ \E m \in ArrayNames \ {event.name} :
          /\ invoked[Key(m)].failed > 0
          /\ invoked[Key(m)].n = invoked[Key(m)].failed
    /\ invoked[Key(event.name)] = [n |-> 1, failed |-> 0]

(***************************************************************************)
(* The claim about cancelling a waiter (SpecCancel).                       *)
(***************************************************************************)

\* A step that takes the caller out of its wait.
WaiterReturns(rt) == CancelNext /\ pc'[rt] # "waiting"

\* C14: a caller that waits for the factory of another caller and whose
\* context has been cancelled can return from its wait, while the factory goes
\* on running.
C14_CancelledWaiterCanReturn ==
    \A rt \in Runtimes :
        (/\ pc[rt] = "waiting"
         /\ cancelled[rt]
         /\ entry[Key(cur[rt].name)].state = "inprogress") => ENABLED WaiterReturns(rt)

(***************************************************************************)
(* The claim about binding several names (SpecBind).                       *)
(***************************************************************************)
C15_State ==
    event.kind = "bind" =>
        /\ event.name \in DOMAIN bindings[event.rt]
        /\ bindings[event.rt][event.name] = ToBindObject(event.v)

C15_Step ==
    \A rt \in Runtimes : \A n \in DOMAIN bindings[rt] :
        (event'.kind = "bind" /\ (event'.rt # rt \/ event'.name # n)) =>
            /\ n \in DOMAIN bindings'[rt]
            /\ bindings'[rt][n] = bindings[rt][n]

\* C15: Bind(name, v) makes the name resolve to the export set of v and
\* leaves every other bound name of the Runtime resolving to what it resolved
\* to before: after Bind calls with different names each name resolves to the
\* export set of its own host object.
C15_BindKeepsOtherNames == []C15_State /\ [][C15_Step]_vars

\* C15 witness: a second name is bound to another host object while the first
\* one is bound.
C15_Witness ==
    /\ event.kind = "bind"
    /\ event.name = "n2"
    /\ DOMAIN bindings[event.rt] = {"n1", "n2"}
    /\ bindings[event.rt]["n1"] # bindings[event.rt]["n2"]
    /\ bindings[event.rt]["n1"] # <<>>

(***************************************************************************)
(* The claim about construction (SpecNew).                                 *)
(***************************************************************************)

\* C16: NewWith with a mode name that is neither empty nor the name of a mode
\* returns no Runtime and an error that carries the name given and the names
\* of the modes, and no Runtime comes to exist; with the empty name, or no
\* options at all, it selects the base mode.
C16_InvalidModeFailsConstruction ==
    event.kind = "new" =>
        LET name == IF event.opts = NilOptions THEN "" ELSE event.opts.CompatibilityMode IN
        /\ name \notin {"", "base", "extended"} =>
              /\ event.rt = NoRuntime
              /\ event.err.invalid = name
              /\ {event.err.use[i] : i \in 1..Len(event.err.use)} = {"extended", "base"}
              /\ Len(made) = event.madeBefore
        /\ name = "" =>
              /\ event.err = NoError
              /\ event.rt # NoRuntime
              /\ event.rt.CompatibilityMode = "base"
              /\ made[Len(made)] = event.rt

\* C16 witness: a construction with an invalid name after one that succeeded.
C16_Witness ==
    /\ event.kind = "new"
    /\ event.opts # NilOptions
    /\ event.opts.CompatibilityMode = "es6"
    /\ event.rt = NoRuntime
    /\ Len(made) = 1

(***************************************************************************)
(* More claims about the wrapper of an exported method (SpecWrap).         *)
(***************************************************************************)

\* Fixed parameter q is reached by the copy loop: no parameter up to it takes
\* the call descriptor.
Reached(sig, q) == \A q2 \in 1..q : FixedType(sig, q2) # fnCallT

\* The script gave no argument, or undefined, for fixed parameter q.
NotGiven(callArgs, q) == q > Len(callArgs) \/ IsUndefined(callArgs[q])

\* C17: a fixed parameter of a wrapped method whose script argument is
\* missing or undefined gets the zero value of its type, or undefined when its
\* type is goja.Value, and is not exported: a call whose other arguments
\* convert invokes the method, also when undefined could not be exported to
\* the type of the parameter.
C17_UndefinedBecomesZero ==
    Called =>
        /\ (/\ ~TakesCallDescriptor(bound)
            /\ \A q \in 1..Len(result.callArgs) :
                  ~FailsToConvert(bound, result.callArgs, q)) => result.out.invoked
        /\ result.out.invoked =>
              \A q \in 1..FixedCount(bound) :
                  (Reached(bound, q) /\ NotGiven(result.callArgs, q)) =>
                      result.out.args[reservedArgs(bound) + q] =
                          IF FixedType(bound, q) = jsValT
                          THEN [t |-> jsValT, v |-> Undefined]
                          ELSE [t |-> FixedType(bound, q), v |-> 0]

\* C17 witness: a method with a callable and a goja.Value parameter, called
\* with undefined for the first and nothing for the second.
C17_Witness ==
    /\ Called
    /\ wantsContext(bound)
    /\ FixedCount(bound) = 2
    /\ FixedType(bound, 1) = "callable"
    /\ FixedType(bound, 2) = jsValT
    /\ result.callArgs = <<Undefined>>
    /\ result.out.invoked
    /\ result.out.args[2] = [t |-> "callable", v |-> 0]
    /\ result.out.args[3] = [t |-> jsValT, v |-> Undefined]

(***************************************************************************)
(* The claim about the arguments of the SharedArray constructor            *)
(* (SpecShare).                                                            *)
(***************************************************************************)

ArgumentErrors ==
    {"missing init environment", "empty name provided to SharedArray's constructor"}

C18_State ==
    (event.kind = "exception" /\ "name" \in DOMAIN event) =>
        /\ event.err \in ArgumentErrors
        /\ GetInitEnv(ctxCell[event.rt]) = NoValue => event.err = "missing init environment"
        /\ (GetInitEnv(ctxCell[event.rt]) # NoValue /\ event.name = "") =>
              event.err = "empty name provided to SharedArray's constructor"

C18_Step ==
    (event'.kind = "exception" /\ event'.err \in ArgumentErrors) =>
        /\ pc' = pc
        /\ <<entry, invoked, heap, held>>' = <<entry, invoked, heap, held>>

\* C18: new SharedArray("", f) under a context with an init environment ends
\* in the exception "empty name provided to SharedArray's constructor", and no
\* factory runs and no entry, invocation count or value of the cache changes;
\* new SharedArray(name, f) under a context without init environment ends in
\* "missing init environment" whatever the name, the empty one included, and
\* leaves the cache alone as well.
C18_ConstructorChecksArguments == []C18_State /\ [][C18_Step]_vars

\* C18 witness: the empty name under a context with an init environment,
\* while another Runtime runs a factory.
C18_Witness ==
    /\ event.kind = "exception"
    /\ event.err = "empty name provided to SharedArray's constructor"
    /\ event.name = ""
    /\ GetInitEnv(ctxCell[event.rt]) # NoValue
    /\ \E r \in Runtimes \ {event.rt} : pc[r] = "factory"


\* The fields of Options whose value Apply takes from its argument: a null
\* field that is Valid, a pointer, slice or map that is not nil, tags that are
\* not empty.
IsSet(f, opts) ==
    IF f \in NullFields THEN opts[f].Valid
    ELSE IF f = "RunTags" THEN ~opts[f].isNil /\ opts[f].val # {}
    ELSE ~opts[f].isNil

\* C19: in the Options that a.Apply(b) returns every field that is set in b
\* has the value it has in b and every other field the value it has in a, the
\* three fields of the DNS configuration each on its own; after the call the
\* caller's a and b are what they were.
C19_ApplyOverridesSetFields ==
    event.kind = "apply" =>
        /\ \A f \in OptionFields \ {"DNS"} :
              event.merged[f] = IF IsSet(f, event.opts) THEN event.opts[f] ELSE event.o[f]
        /\ \A s \in DNSFields :
              event.merged.DNS[s] =
                  IF event.opts.DNS[s].Valid THEN event.opts.DNS[s] ELSE event.o.DNS[s]
        /\ config.o = event.o
        /\ config.opts = event.opts

\* C19 witness: Options with one empty slice given, applied to Options with
\* every field set, return the empty slice and the other fields of the receiver.
C19_Witness ==
    /\ event.kind = "apply"
    /\ event.o = FullOptions("set")
    /\ event.opts.TLSAuth = Ref(<<>>)
    /\ event.merged.TLSAuth = Ref(<<>>)
    /\ event.merged.RPS = Null(TRUE, "set")
    /\ event.merged # event.o
    /\ event.merged # event.opts


(***************************************************************************)
(* The states of a shared entry (SpecShare).                               *)
(***************************************************************************)

\* Who may return from GetOrCreateShare in a step, and what an entry that has
\* been started may become: the caller that is handed a value either ends the
\* factory it ran as the first requester or found the entry done; a caller
\* leaves its wait for an answer only when the entry is done; the first
\* requester of an entry in progress stays the same; a done entry stays as
\* it is.
C20_Returns ==
    /\ event'.kind = "array" =>
          LET e == entry[Key(event'.name)]
          IN \/ e.state = "inprogress" /\ e.owner = event'.rt /\ pc[event'.rt] = "factory"
             \/ e.state = "done"
    /\ \A rt \in Runtimes :
          (pc[rt] = "waiting" /\ pc'[rt] = "script") =>
              entry[Key(cur[rt].name)].state = "done"
    /\ \A k \in Keys :
          /\ (entry[k].state = "inprogress" /\ entry'[k].state = "inprogress") =>
                entry'[k].owner = entry[k].owner
          /\ entry[k].state = "done" => entry'[k] = entry[k]

\* The state of every entry stays or advances by one.
C20_Advances ==
    \A k \in Keys :
        \/ entry'[k].state = entry[k].state
        \/ entry[k].state = "unstarted" /\ entry'[k].state = "inprogress"
        \/ entry[k].state = "inprogress" /\ entry'[k].state = "done"

\* The same, or the first requester's factory has failed and the cache, not
\* keeping failures, has given the entry up.
C20_AdvancesOrGivenUp ==
    \A k \in Keys :
        \/ entry'[k].state = entry[k].state
        \/ entry[k].state = "unstarted" /\ entry'[k].state = "inprogress"
        \/ entry[k].state = "inprogress" /\ entry'[k].state = "done"
        \/ /\ entry[k].state = "inprogress" /\ entry'[k].state = "unstarted"
           /\ failurePolicy = "retry"
           /\ FactoryFails(k)
           /\ event'.kind = "exception" /\ event'.rt = entry[k].owner

\* A caller that has just been handed a value finds the entry of the name done,
\* not failed, and holding that value.
C20_State ==
    event.kind = "array" =>
        /\ entry[Key(event.name)].state = "done"
        /\ ~entry[Key(event.name)].failed
        /\ entry[Key(event.name)].value = event.id
        /\ event.id # 0

\* C20 as stated: no caller other than the first requester of a name returns
\* before the first requester's factory has ended; the state of an entry only
\* advances from unstarted to in progress to done; a caller that returns a
\* value does so while the entry is done.
C20_StateOnlyAdvances == []C20_State /\ [][C20_Returns /\ C20_Advances]_vars

\* C20, corrected: the same, except that the entry of a factory that failed
\* goes back from in progress to unstarted when the cache does not keep
\* failures; the next caller, or a caller that waited, then runs its own
\* factory as the first requester.
C20_StateAdvancesUnlessGivenUp ==
    []C20_State /\ [][C20_Returns /\ C20_AdvancesOrGivenUp]_vars

\* C20 witness: a caller that waited is handed the value of an entry whose
\* first factory had failed and which was started again.
C20_Witness ==
    /\ event.kind = "array"
    /\ event.waited
    /\ entry[Key(event.name)].state = "done"
    /\ entry[Key(event.name)].owner # event.rt
    /\ invoked[Key(event.name)] = [n |-> 2, failed |-> 1]
    /\ failurePolicy = "retry"

(***************************************************************************)
(* More claims about the context cell (Spec, SpecSeq).                     *)
(***************************************************************************)

\* C21: whenever the cell of Runtime r has been written, GetRuntime of the
\* context in it is r itself, and so a native function that a script of r
\* calls recovers r from the context it is handed, also when the evaluation
\* runs under a context that already carried another Runtime.
C21_CallbackRecoversItsRuntime ==
    /\ \A rt \in Runtimes : ~ctxCell[rt].nil => GetRuntime(ctxCell[rt]) = rt
    /\ event.kind = "call" =>
          /\ ~event.got.nil
          /\ GetRuntime(event.got) = event.rt

\* C21 witness: a script of r1, evaluated under a context that carries r2,
\* calls the native function, which recovers r1.
C21_Witness ==
    /\ event.kind = "call"
    /\ event.rt = "r1"
    /\ GetRuntime(event.under) = "r2"
    /\ GetRuntime(event.got) = "r1"

\* While a Runtime evaluates, its cell holds the context of its own evaluation
\* and a callback of its script is handed the values of that context.
C22_State ==
    /\ \A rt \in Runtimes :
          pc[rt] = "script" => ctxCell[rt] = WithRuntime(Top(evalStack[rt]), rt)
    /\ event.kind = "call" =>
          \A k \in UserKeys :
              Value(event.got, k) = Value(Top(evalStack[event.rt]), k)

\* A step writes the cell of at most one Runtime, the one that starts an
\* evaluation in that step.
C22_Step ==
    \A rt \in Runtimes :
        ctxCell'[rt] # ctxCell[rt] =>
            /\ pc[rt] = "idle" /\ pc'[rt] = "script"
            /\ \A other \in Runtimes \ {rt} : ctxCell'[other] = ctxCell[other]

\* C22: an evaluation on one Runtime never changes the cell of another
\* Runtime: with evaluations on r1 and r2 interleaved, each under a context of
\* its own, the callbacks of r2's script are handed the values of r2's context.
C22_CellsAreSeparate == []C22_State /\ [][C22_Step]_vars

\* C22 witness: r1 and r2 both evaluate, under contexts with different values,
\* and the script of r2 calls the native function.
C22_Witness ==
    /\ event.kind = "call"
    /\ event.rt = "r2"
    /\ pc["r1"] = "script"
    /\ Value(ctxCell["r1"], "a") = "b"
    /\ Value(event.got, "a") = "c"
    /\ Value(event.under, "a") = "c"

(***************************************************************************)
(* More claims about the wrapper of ToBindObject (SpecWrap).               *)
(***************************************************************************)

\* The native value a positional parameter of type T gets from script
\* argument arg.
FilledFrom(arg, T) ==
    IF IsUndefined(arg)
    THEN (IF T = jsValT THEN [t |-> jsValT, v |-> Undefined] ELSE Zero(T))
    ELSE ExportTo(arg, T).v

\* The declared parameters (counted from 0) that take one script argument by
\* position: not the injected context, not a call descriptor, not the variadic
\* tail.
Positional(sig) ==
    {i \in reservedArgs(sig)..(numIn(sig) - 1) :
        /\ sig.ins[i + 1] # fnCallT
        /\ ~(sig.variadic /\ i = numIn(sig) - 1)}

\* C23: when a wrapper calls its method, native argument 0 of a method that
\* takes a context is the context in the cell and its positional parameter i
\* holds script argument i-1; positional parameter i of a wrapped method that
\* takes no context holds script argument i.
C23_ArgumentsShiftByContext ==
    (result # NoResult /\ result.out.invoked) =>
        /\ wantsContext(bound) =>
              /\ result.out.args[1] = [t |-> ctxT, v |-> ctxCell["r1"]]
              /\ \A i \in Positional(bound) :
                    /\ i >= 1
                    /\ result.out.args[i + 1] =
                          FilledFrom(Argument(result.callArgs, i - 1), bound.ins[i + 1])
        /\ ~wantsContext(bound) =>
              \A i \in Positional(bound) :
                  result.out.args[i + 1] =
                      FilledFrom(Argument(result.callArgs, i), bound.ins[i + 1])

\* C23 witness: a method (ctx, int, callable) called with a number and a
\* function gets the context, the number and the function, in that order.
C23_Witness ==
    /\ result # NoResult
    /\ result.out.invoked
    /\ bound.ins = <<ctxT, "int", "callable">>
    /\ result.callArgs = <<[k |-> "num", v |-> 7], [k |-> "fn", v |-> 1]>>
    /\ result.out.args = <<[t |-> ctxT, v |-> ctxCell["r1"]],
                           [t |-> "int", v |-> 7], [t |-> "callable", v |-> 1]>>

\* The declared parameters (counted from 0) of the call-descriptor type.
Descriptors(sig) == {i \in reservedArgs(sig)..(numIn(sig) - 1) : sig.ins[i + 1] = fnCallT}

\* The argument vector the copy loop assembles for the last call.
Assembled == CopyArgs(bound, result.callArgs, 0, InitialArgs(bound, ctxCell["r1"]))

\* C24: when the copy loop of a wrapper reaches a parameter of the
\* call-descriptor type, that parameter gets the whole call and the loop ends:
\* the slot of every later declared parameter is left as it was, no script
\* argument exported to it, and so the method is called only when the
\* descriptor is its last parameter.
C24_DescriptorEndsAssembly ==
    (result # NoResult /\ Descriptors(bound) # {}) =>
        LET p == CHOOSE i \in Descriptors(bound) : \A j \in Descriptors(bound) : i <= j
        IN IF Assembled.ok
           THEN /\ Assembled.args[p + 1] = [t |-> fnCallT, v |-> result.callArgs]
                /\ \A j \in (p + 1)..(numIn(bound) - 1) : Assembled.args[j + 1] = Unset
                /\ result.out.invoked <=> p = numIn(bound) - 1
                /\ result.out.invoked => result.out.args = Assembled.args
           ELSE /\ Assembled.args[p + 1] = Unset
                /\ ~result.out.invoked

\* C24 witness: a method (ctx, descriptor, int) is called with a number; the
\* descriptor holds the call and the int parameter was given nothing.
C24_Witness ==
    /\ result # NoResult
    /\ bound.ins = <<ctxT, fnCallT, "int">>
    /\ result.callArgs = <<[k |-> "num", v |-> 7]>>
    /\ Assembled.ok
    /\ Assembled.args[2] = [t |-> fnCallT, v |-> result.callArgs]
    /\ Assembled.args[3] = Unset
    /\ ~result.out.invoked

(***************************************************************************)
(* The claim about which methods are wrapped (SpecExport).                 *)
(***************************************************************************)

\* The method value itself: val.Method(i).Interface().
MethodItself(m) ==
    [kind |-> "method", of |-> m.Name, wrapped |-> FALSE, constructor |-> FALSE]

\* The argument-assembling wrapper is synthesized exactly for the methods that
\* take a context first or return an error second.
C25_WrapperIff ==
    event.kind = "export" =>
        (event.value.wrapped <=> (wantsContext(event.m.sig) \/ hasError(event.m.sig)))

\* C25 as stated: a method that neither takes a context first nor returns an
\* error second, variadic or not, is exported as the method value itself, and
\* a wrapper is synthesized exactly when it takes a context or is fallible.
C25_PlainMethodExportedItself ==
    /\ C25_WrapperIff
    /\ (event.kind = "export"
          /\ ~wantsContext(event.m.sig) /\ ~hasError(event.m.sig)) =>
              event.value = MethodItself(event.m)

\* C25, corrected: the same for the methods whose name does not begin with
\* X; for a method whose name begins with X the export is the script function
\* made for constructors, around the method value itself when the method takes
\* no context and is not fallible.
C25_PlainMethodExportedUnlessConstructor ==
    /\ C25_WrapperIff
    /\ (event.kind = "export"
          /\ ~wantsContext(event.m.sig) /\ ~hasError(event.m.sig)) =>
              /\ event.m.Name[1] # ConstructorMarker => event.value = MethodItself(event.m)
              /\ event.m.Name[1] = ConstructorMarker =>
                    event.value = [MethodItself(event.m) EXCEPT !.constructor = TRUE]

\* C25 witness: a variadic constructor that takes no context and returns no
\* error is exported without the wrapper, inside the script function.
C25_Witness ==
    /\ event.kind = "export"
    /\ event.m.Name[1] = ConstructorMarker
    /\ event.m.sig.variadic
    /\ ~wantsContext(event.m.sig)
    /\ ~hasError(event.m.sig)
    /\ ~event.value.wrapped
    /\ event.value.constructor

(***************************************************************************)
(* The claim about convertValue (SpecConvert).                             *)
(***************************************************************************)

\* w is what the claim says convertValue makes of v: of a mapping a new
\* mapping with the same keys whose values are, each, what it makes of v's
\* value under that key; of a function that takes a context, the closure
\* around it; of any other value the value itself.
RECURSIVE Rewritten(_, _)
Rewritten(v, w) ==
    IF IsMapping(v)
    THEN /\ IsMapping(w)
         /\ w.by = "convertValue"
         /\ DOMAIN w.m = DOMAIN v.m
         /\ \A k \in DOMAIN v.m : Rewritten(v.m[k], w.m[k])
    ELSE IF v \in {CtxFunction, CtxConstructor} THEN w = Closure(v)
    ELSE w = v

\* C26: convertValue of a map[string]interface{} is a new mapping with exactly
\* the keys of the given one, each value being convertValue of the given value,
\* through all nested mappings; the given mapping is as it was after the call;
\* a value that is neither a function taking a context nor such a mapping is
\* returned as it is.
C26_MappingsRewrittenRecursively ==
    event.kind = "convert" =>
        /\ Rewritten(event.value, event.converted)
        /\ given = event.value
        /\ (~IsMapping(event.value) /\ event.value \notin {CtxFunction, CtxConstructor}) =>
              event.converted = event.value

\* C26 witness: a mapping with a number and, in a nested mapping, a function
\* that takes a context is converted: the number is kept, the nested function
\* has become a closure, and the given mapping still holds the function.
C26_Witness ==
    /\ event.kind = "convert"
    /\ IsMapping(event.value)
    /\ DOMAIN event.value.m = {"x", "y"}
    /\ event.value.m["y"] = [kind |-> "int"]
    /\ IsMapping(event.value.m["x"])
    /\ "x" \in DOMAIN event.value.m["x"].m
    /\ event.value.m["x"].m["x"] = CtxFunction
    /\ event.converted.m["y"] = [kind |-> "int"]
    /\ event.converted.m["x"].m["x"] = Closure(CtxFunction)
    /\ given.m["x"].m["x"] = CtxFunction

(***************************************************************************)
(* The claims about the script result of a wrapped method (SpecWrap).      *)
(***************************************************************************)

\* C27: when the call of a wrapped method ends without a script exception,
\* the script gets the engine's undefined if the method has no return values
\* and the conversion of the first return value if it has any.
C27_ResultIsFirstReturnValue ==
    (Called /\ result.out.kind = "returned") =>
        /\ result.out.invoked
        /\ numOut(bound) = 0 => result.out.value = Undefined
        /\ numOut(bound) > 0 =>
              /\ result.out.value.k = "native"
              /\ result.out.value = ToValue(Returns(bound, result.fails)[1])

\* C27 witness: a method that takes a context and returns nothing was called
\* and the script got undefined.
C27_Witness ==
    /\ Called
    /\ wantsContext(bound)
    /\ numOut(bound) = 0
    /\ result.out.invoked
    /\ result.out.kind = "returned"
    /\ result.out.value = Undefined

\* C29: a method that takes a context and returns an error only is not
\* fallible; when it returns a non-nil error its wrapper raises no script
\* exception, and the script call returns the converted error.
C29_LoneErrorIsAValue ==
    (Called /\ wantsContext(bound) /\ bound.outs = <<errorT>>) =>
        /\ ~hasError(bound)
        /\ (result.out.invoked /\ result.fails) =>
              /\ ~Returns(bound, TRUE)[1].isNil
              /\ result.out.kind = "returned"
              /\ result.out.err = ""
              /\ result.out.value = ToValue(Returns(bound, TRUE)[1])

\* C29 witness: such a method was called, returned a non-nil error, and the
\* script call returned a value.
C29_Witness ==
    /\ Called
    /\ wantsContext(bound)
    /\ bound.outs = <<errorT>>
    /\ result.fails
    /\ result.out.invoked
    /\ result.out.kind = "returned"
    /\ result.out.value = ToValue([t |-> errorT, isNil |-> FALSE, v |-> "boom"])

(***************************************************************************)
(* The claim about the life of the current-context cell (SpecHost).        *)
(***************************************************************************)

\* Before the first evaluation: the cell of every Runtime is nil.
C28_Start == \A rt \in Runtimes : ctxCell[rt] = NilCtx

\* A cell that is nil belongs to a Runtime that is not evaluating, and a
\* callback called then got a nil context; a cell that is not nil holds a
\* context with the Runtime attached.
C28_State ==
    /\ \A rt \in Runtimes :
          /\ ctxCell[rt].nil => (pc[rt] = "idle" /\ evalStack[rt] = <<>>)
          /\ ~ctxCell[rt].nil => GetRuntime(ctxCell[rt]) = rt
    /\ event.kind = "hostcall" => event.got = ctxCell[event.rt]

\* The cell changes only in a step that begins an evaluation, and then to the
\* context of that evaluation with the Runtime attached; a step that ends an
\* evaluation, as any other step, leaves it as it is.
C28_Step ==
    \A rt \in Runtimes :
        /\ Len(evalStack'[rt]) > Len(evalStack[rt]) =>
              ctxCell'[rt] = WithRuntime(Top(evalStack'[rt]), rt)
        /\ Len(evalStack'[rt]) <= Len(evalStack[rt]) => ctxCell'[rt] = ctxCell[rt]

\* C28: the Runtime never clears or restores its current-context cell: the
\* cell is nil before the first evaluation, so that a context-taking callback
\* called then gets a nil context, and once an evaluation under C has returned
\* the cell holds C with the Runtime attached until the next RunString,
\* RunScript or RunProgram overwrites it.
C28_CellNeverClearedNorRestored == C28_Start /\ []C28_State /\ [][C28_Step]_vars

\* C28 witness: r1 has evaluated under a context and returned, and its cell
\* still holds that context with r1 attached, while a callback of r2, which
\* has not evaluated yet, was called and got a nil context.
C28_Witness ==
    /\ pc["r1"] = "idle"
    /\ evalStack["r1"] = <<>>
    /\ ctxCell["r1"] = WithRuntime(CtxEnvB, "r1")
    /\ event.kind = "hostcall"
    /\ event.rt = "r2"
    /\ event.got = NilCtx

(***************************************************************************)
(* The claim about the bytes GetTrail reports (SpecTrail).                 *)
(***************************************************************************)
RECURSIVE SumBytesRead(_)
SumBytesRead(trails) ==
    IF trails = <<>> THEN 0 ELSE trails[1].BytesRead + SumBytesRead(Tail(trails))

RECURSIVE SumBytesWritten(_)
SumBytesWritten(trails) ==
    IF trails = <<>> THEN 0 ELSE trails[1].BytesWritten + SumBytesWritten(Tail(trails))

\* C30 as stated: with Reads and Writes running while GetTrail is called, at
\* any time the BytesRead of all returned trails and the Dialer's BytesRead
\* add up to the bytes counted as read, the same for BytesWritten, and a
\* GetTrail call before which no Conn has transferred anything since the
\* previous call returned reports zero for both.
C30_EveryByteInReturnedTrailsOrCounter ==
    /\ SumBytesRead(dialer.trails) + dialer.BytesRead = dialer.counted.read
    /\ SumBytesWritten(dialer.trails) + dialer.BytesWritten = dialer.counted.written
    /\ (event.kind = "trail" /\ event.quiet) =>
          (event.trail.BytesRead = 0 /\ event.trail.BytesWritten = 0)

\* C30, corrected: the bytes a GetTrail call has taken from a counter and not
\* returned yet count as well: the returned trails, the Dialer's counter and
\* the local of the call in progress add up to the bytes counted, for read and
\* for written bytes; and a GetTrail call reports zero for a counter to which
\* no Conn has added since GetTrail last took that counter.
C30_EveryByteInOneTrailCounterOrCall ==
    /\ SumBytesRead(dialer.trails) + dialer.BytesRead + dialer.call.bytesRead
          = dialer.counted.read
    /\ SumBytesWritten(dialer.trails) + dialer.BytesWritten + dialer.call.bytesWritten
          = dialer.counted.written
    /\ event.kind = "trail" =>
          /\ event.quietRead => event.trail.BytesRead = 0
          /\ event.quietWritten => event.trail.BytesWritten = 0

\* C30 witness: a second GetTrail call has returned; no Conn transferred
\* anything between the return of the first call and it, and it reports
\* bytes written all the same: they were written while the first call was
\* between its two swaps.
C30_Witness ==
    /\ event.kind = "trail"
    /\ Len(dialer.trails) = 2
    /\ event.quiet
    /\ event.quietRead
    /\ ~event.quietWritten
    /\ event.trail.BytesWritten > 0
    /\ event.trail.BytesRead = 0
    /\ dialer.trails[1].BytesRead > 0

====
